---------------------------- MODULE Spec2Model ----------------------------
(***************************************************************************)
(* Storage-runtime core of my_bustub: LRU-K replacer, buffer pool manager, *)
(* page guards and the disk extendible hash index.                         *)
(***************************************************************************)
EXTENDS Integers, Sequences, FiniteSets, TLC

VARIABLES
  replacer,     \* LRUKReplacer: node_store_, current_timestamp_, evictable_size_, k_
  rep_out,      \* the last replacer call: operation, arguments, result
  pool,         \* BufferPoolManager: pages_, page_table_, free_list_, next_page_id_, replacer_, disk
  guards,       \* the page guard objects: bpm_, page_, is_dirty_ and their kind
  latch,        \* Page::rwlatch_ of every frame: readers and writer
  raw_pins,     \* page id -> NewPage/FetchPage calls of clients not yet matched by UnpinPage
  appends,      \* page id -> the bytes the clients' completed writes amount to
  unsaved,      \* the pages a client wrote and has not yet unpinned with is_dirty = true
  crash,        \* "no", or why the process died
  ht,           \* DiskExtendibleHashTable: its header, directory and bucket pages
  ht_expect,    \* key -> value of the keys inserted (Insert returned true) and not removed since
  ht_trace,     \* the Insert calls made on the table, in order, with what each one did
  threads,      \* the threads calling the hash table: the call each one is in and where
  sched         \* DiskScheduler: request_queue_, the worker thread, the disk, the promises

rvars == <<replacer, rep_out>>
pvars == <<pool, guards, latch, raw_pins, appends, unsaved, crash>>
hvars == <<ht, ht_expect, ht_trace, threads>>
svars == <<sched>>
vars == <<rvars, pvars, hvars, svars>>

(***************************************************************************)
(* Bounds                                                                  *)
(***************************************************************************)
ReplacerFrames == 3      \* replacer_size_ of the stand-alone replacer
MaxK == 2                \* k is drawn from 1..MaxK
MaxTime == 4             \* RecordAccess calls per run of the stand-alone replacer
PoolSize == 2            \* pool_size_ of the buffer pool
MaxPages == 3            \* page ids the pool allocates per run
MaxPoolTime == 4         \* NewPage/FetchPage calls per run of the pool
GuardSlots == 2          \* guard objects alive at once
MaxGuardTime == 3        \* NewPage/FetchPage calls per run of the guards' clients
MaxAppends == 1          \* read-modify-write sections per run
MaxWritePages == 1       \* pages 0..MaxWritePages-1 are the ones clients write
MaxBucketSize == 3       \* bucket_max_size is drawn from 2..MaxBucketSize
DirMaxDepth == 2         \* directory_max_depth of the hash table
MaxKey == 4              \* keys are 0..MaxKey-1
MaxHashPages == 6        \* pages the hash table allocates per run
MaxHeaderDepth == 2      \* header_max_depth is drawn from 0..MaxHeaderDepth
MaxIndexKey == 2         \* the threads' calls take their keys from 0..MaxIndexKey-1

(***************************************************************************)
(* Helpers                                                                 *)
(***************************************************************************)
NoFrame == -1            \* frame_id_t evict_id = -1

RECURSIVE Perms(_)
Perms(S) ==
  IF S = {} THEN {<<>>}
  ELSE UNION {{<<x>> \o p : p \in Perms(S \ {x})} : x \in S}

Restrict(f, S) == [x \in S |-> f[x]]

(***************************************************************************)
(* LRU-K replacer (src/buffer/lru_k_replacer.cpp)                          *)
(***************************************************************************)
INF == 2147483647

\* LRUKNode::LRUKNode: the history holds the first timestamp, not evictable
NewNode(ts) == [history |-> <<ts>>, is_evictable |-> FALSE]

\* LRUKNode::RecordAccess: history_.push_front
NodeRecordAccess(node, ts) == [node EXCEPT !.history = <<ts>> \o @]

\* LRUKNode::GetKDistance
GetKDistance(node, k, now) ==
  IF Len(node.history) < k THEN INF ELSE now - node.history[k]

\* LRUKNode::GetEarlyTimestamp: history_.back()
GetEarlyTimestamp(node) == node.history[Len(node.history)]

\* LRUKReplacer::LRUKReplacer
NewReplacer(num_frames, k) ==
  [node_store |-> <<>>, current_timestamp |-> 0, evictable_size |-> 0,
   replacer_size |-> num_frames, k |-> k]

Tracked(r) == DOMAIN r.node_store

EvictableFrames(r) == {f \in Tracked(r) : r.node_store[f].is_evictable}

\* EvictScan without "if (!node->GetEvictable()) continue;"
RECURSIVE EvictScanIgnoringEvictable(_, _, _, _)
EvictScanIgnoringEvictable(r, ord, i, acc) ==
  IF i > Len(ord) THEN acc
  ELSE LET node == r.node_store[ord[i]]
           now_k_distance == GetKDistance(node, r.k, r.current_timestamp) IN
       IF now_k_distance > acc.mx_k_distance
         THEN EvictScanIgnoringEvictable(r, ord, i + 1,
                [mx_k_distance |-> now_k_distance,
                 early_timestamp |-> GetEarlyTimestamp(node),
                 evict_id |-> ord[i]])
       ELSE IF now_k_distance = acc.mx_k_distance
               /\ acc.early_timestamp > GetEarlyTimestamp(node)
         THEN EvictScanIgnoringEvictable(r, ord, i + 1,
                [acc EXCEPT !.early_timestamp = GetEarlyTimestamp(node),
                            !.evict_id = ord[i]])
       ELSE EvictScanIgnoringEvictable(r, ord, i + 1, acc)

\* The loop of LRUKReplacer::Evict over node_store_ in the iteration order ord;
\* acc holds mx_k_distance, early_timestamp and evict_id.
RECURSIVE EvictScan(_, _, _, _)
EvictScan(r, ord, i, acc) ==
  IF i > Len(ord) THEN acc
  ELSE LET node == r.node_store[ord[i]] IN
       IF ~node.is_evictable THEN EvictScan(r, ord, i + 1, acc)
       ELSE LET now_k_distance == GetKDistance(node, r.k, r.current_timestamp) IN
            IF now_k_distance > acc.mx_k_distance
              THEN EvictScan(r, ord, i + 1,
                     [mx_k_distance |-> now_k_distance,
                      early_timestamp |-> GetEarlyTimestamp(node),
                      evict_id |-> ord[i]])
            ELSE IF now_k_distance = acc.mx_k_distance
                    /\ acc.early_timestamp > GetEarlyTimestamp(node)
              THEN EvictScan(r, ord, i + 1,
                     [acc EXCEPT !.early_timestamp = GetEarlyTimestamp(node),
                                 !.evict_id = ord[i]])
            ELSE EvictScan(r, ord, i + 1, acc)

\* size_t early_timestamp; is read before it is written when the first evictable
\* node scanned has k-distance 0: its value is then whatever the stack held.
Uninitialised == {0, INF}

\* The scan results of Evict over every iteration order of the unordered_map
\* and every value of the uninitialised early_timestamp.
EvictScans(r) ==
  {EvictScan(r, ord, 1, [mx_k_distance |-> 0, early_timestamp |-> u, evict_id |-> NoFrame]) :
     ord \in Perms(Tracked(r)), u \in Uninitialised}

\* Evict after the scan without node_store_.erase(evict_id)
EvictResultKeepingNode(r, acc) ==
  IF acc.evict_id = NoFrame
    THEN [ok |-> FALSE, frame_id |-> NoFrame, r |-> r]
    ELSE [ok |-> TRUE, frame_id |-> acc.evict_id,
          r |-> [r EXCEPT !.evictable_size = @ - 1]]

\* LRUKReplacer::Evict after the scan: false, or erase the node and decrement
EvictResult(r, acc) ==
  IF acc.evict_id = NoFrame
    THEN [ok |-> FALSE, frame_id |-> NoFrame, r |-> r]
    ELSE [ok |-> TRUE, frame_id |-> acc.evict_id,
          r |-> [r EXCEPT !.node_store = Restrict(@, Tracked(r) \ {acc.evict_id}),
                          !.evictable_size = @ - 1]]

\* LRUKReplacer::Evict: every outcome the build can produce
EvictOutcomes(r) == {EvictResult(r, acc) : acc \in EvictScans(r)}

\* LRUKReplacer::RecordAccess for a frame id in range
ReplacerRecordAccess(r, frame_id) ==
  LET ts == r.current_timestamp + 1 IN
  [r EXCEPT !.current_timestamp = ts,
            !.node_store =
              IF frame_id \in Tracked(r)
                THEN [@ EXCEPT ![frame_id] = NodeRecordAccess(@, ts)]
                ELSE [f \in Tracked(r) \cup {frame_id} |->
                        IF f = frame_id THEN NewNode(ts) ELSE r.node_store[f]]]

\* SetEvictable without now_frame->SetEvictable(set_evictable)
ReplacerSetEvictableOnlyCounting(r, frame_id, set_evictable) ==
  IF r.node_store[frame_id].is_evictable # set_evictable
    THEN [r EXCEPT !.evictable_size = IF set_evictable THEN @ + 1 ELSE @ - 1]
    ELSE r

\* SetEvictable without "if (now_frame->GetEvictable() != set_evictable)"
ReplacerSetEvictableCountingAlways(r, frame_id, set_evictable) ==
  [r EXCEPT !.evictable_size = IF set_evictable THEN @ + 1 ELSE @ - 1,
            !.node_store[frame_id].is_evictable = set_evictable]

\* LRUKReplacer::SetEvictable for a tracked frame
ReplacerSetEvictable(r, frame_id, set_evictable) ==
  IF r.node_store[frame_id].is_evictable # set_evictable
    THEN [r EXCEPT !.evictable_size = IF set_evictable THEN @ + 1 ELSE @ - 1,
                   !.node_store[frame_id].is_evictable = set_evictable]
    ELSE r

\* Remove that takes the frame out of the count and keeps its node and history
ReplacerRemoveKeepingHistory(r, frame_id) ==
  IF frame_id \notin Tracked(r) THEN r
  ELSE [r EXCEPT !.evictable_size = @ - 1,
                 !.node_store[frame_id].is_evictable = FALSE]

\* LRUKReplacer::Remove for an untracked frame or a tracked evictable one
ReplacerRemove(r, frame_id) ==
  IF frame_id \notin Tracked(r) THEN r
  ELSE [r EXCEPT !.evictable_size = @ - 1,
                 !.node_store = Restrict(@, Tracked(r) \ {frame_id})]

\* LRUKReplacer::Size
ReplacerSize(r) == r.evictable_size

(***************************************************************************)
(* Buffer pool manager (declared in src/include/buffer/buffer_pool_manager.h; *)
(* the operations follow section 4.3 of the specification).  A pool P is a  *)
(* record: pages (frame -> page_id, pin_count, is_dirty, data), page_table, *)
(* free_list, next_page_id, replacer, and disk (page id -> data written).   *)
(* Every public operation runs under the pool mutex and is one step.       *)
(***************************************************************************)
INVALID_PAGE_ID == -1

\* Page::ResetMemory and the metadata of a frame holding no page
EmptyPage == [page_id |-> INVALID_PAGE_ID, pin_count |-> 0, is_dirty |-> FALSE, data |-> 0]

RECURSIVE Iota(_, _)
Iota(lo, hi) == IF lo > hi THEN <<>> ELSE <<lo>> \o Iota(lo + 1, hi)

\* BufferPoolManager::BufferPoolManager: every frame starts in the free list
NewPool(pool_size, k) ==
  [pages |-> [f \in 0 .. (pool_size - 1) |-> EmptyPage],
   page_table |-> <<>>,
   free_list |-> Iota(0, pool_size - 1),
   next_page_id |-> 0,
   replacer |-> NewReplacer(pool_size, k),
   disk |-> <<>>]

Resident(P, page_id) == page_id \in DOMAIN P.page_table

\* DiskManager::ReadPage through the scheduler: the bytes last written, else zeroes
DiskRead(P, page_id) == IF page_id \in DOMAIN P.disk THEN P.disk[page_id] ELSE 0

\* DiskManager::WritePage through the scheduler, waited for
DiskWrite(P, page_id, data) ==
  [P EXCEPT !.disk = [q \in DOMAIN P.disk \cup {page_id} |->
                        IF q = page_id THEN data ELSE P.disk[q]]]

\* Step 1 of NewPage / step 2 of FetchPage: the free list first, else the replacer
PickFrame(P) ==
  IF P.free_list # <<>>
    THEN {[ok |-> TRUE, frame |-> Head(P.free_list),
           P |-> [P EXCEPT !.free_list = Tail(@)]]}
    ELSE {[ok |-> o.ok, frame |-> o.frame_id, P |-> [P EXCEPT !.replacer = o.r]] :
            o \in EvictOutcomes(P.replacer)}

\* EvictFrame that leaves the victim's mapping in the page table
EvictFrameKeepingMapping(P, f) ==
  IF P.pages[f].is_dirty THEN DiskWrite(P, P.pages[f].page_id, P.pages[f].data) ELSE P

\* EvictFrame that drops a dirty victim without writing it
EvictFrameWithoutWriteBack(P, f) ==
  [P EXCEPT !.page_table = Restrict(@, DOMAIN @ \ {P.pages[f].page_id})]

\* The victim leaves: a dirty page is written back, its mapping is removed
EvictFrame(P, f) ==
  LET old == P.pages[f]
      Q == IF old.is_dirty THEN DiskWrite(P, old.page_id, old.data) ELSE P
  IN [Q EXCEPT !.page_table = Restrict(@, DOMAIN @ \ {old.page_id})]

\* The page takes the frame: mapping, pin_count 1, clean, RecordAccess, SetEvictable(false)
InstallPage(P, f, page_id, data) ==
  [P EXCEPT !.pages[f] = [page_id |-> page_id, pin_count |-> 1,
                          is_dirty |-> FALSE, data |-> data],
            !.page_table = [q \in DOMAIN @ \cup {page_id} |->
                              IF q = page_id THEN f ELSE @[q]],
            !.replacer = ReplacerSetEvictable(ReplacerRecordAccess(@, f), f, FALSE)]

\* BufferPoolManager::AllocatePage: post-increment of next_page_id_
AllocatePage(P) == [P EXCEPT !.next_page_id = @ + 1]

\* BufferPoolManager::NewPage: the outcomes [P, frame, page_id]; frame = NoFrame is nullptr
BpmNewPage(P) ==
  {IF ~c.ok
     THEN [P |-> P, frame |-> NoFrame, page_id |-> INVALID_PAGE_ID]
     ELSE [P |-> InstallPage(AllocatePage(EvictFrame(c.P, c.frame)), c.frame,
                             P.next_page_id, 0),
           frame |-> c.frame, page_id |-> P.next_page_id] :
   c \in PickFrame(P)}

\* BufferPoolManager::FetchPage: the outcomes [P, frame]
BpmFetchPage(P, page_id) ==
  IF Resident(P, page_id)
    THEN LET f == P.page_table[page_id] IN
         {[P |-> [P EXCEPT !.pages[f].pin_count = @ + 1,
                           !.replacer = ReplacerRecordAccess(
                                          ReplacerSetEvictable(@, f, FALSE), f)],
           frame |-> f]}
    ELSE {IF ~c.ok
            THEN [P |-> P, frame |-> NoFrame]
            ELSE [P |-> InstallPage(EvictFrame(c.P, c.frame), c.frame, page_id,
                                    DiskRead(EvictFrame(c.P, c.frame), page_id)),
                  frame |-> c.frame] :
          c \in PickFrame(P)}

\* UnpinPage that stores is_dirty in the frame instead of OR-ing it in
BpmUnpinPageOverwritingDirty(P, page_id, is_dirty) ==
  IF ~Resident(P, page_id) THEN [P |-> P, ok |-> FALSE]
  ELSE LET f == P.page_table[page_id] IN
       IF P.pages[f].pin_count = 0 THEN [P |-> P, ok |-> FALSE]
       ELSE [P |-> [P EXCEPT !.pages[f].pin_count = @ - 1,
                             !.pages[f].is_dirty = is_dirty,
                             !.replacer = IF P.pages[f].pin_count = 1
                                            THEN ReplacerSetEvictable(@, f, TRUE)
                                            ELSE @],
             ok |-> TRUE]

\* BufferPoolManager::UnpinPage: [P, ok]
BpmUnpinPage(P, page_id, is_dirty) ==
  IF ~Resident(P, page_id) THEN [P |-> P, ok |-> FALSE]
  ELSE LET f == P.page_table[page_id] IN
       IF P.pages[f].pin_count = 0 THEN [P |-> P, ok |-> FALSE]
       ELSE [P |-> [P EXCEPT !.pages[f].pin_count = @ - 1,
                             !.pages[f].is_dirty = @ \/ is_dirty,
                             !.replacer = IF P.pages[f].pin_count = 1
                                            THEN ReplacerSetEvictable(@, f, TRUE)
                                            ELSE @],
             ok |-> TRUE]

\* BufferPoolManager::FlushPage: [P, ok]
BpmFlushPage(P, page_id) ==
  IF ~Resident(P, page_id) THEN [P |-> P, ok |-> FALSE]
  ELSE LET f == P.page_table[page_id] IN
       [P |-> [DiskWrite(P, page_id, P.pages[f].data) EXCEPT !.pages[f].is_dirty = FALSE],
        ok |-> TRUE]

\* BufferPoolManager::DeletePage: [P, ok]
BpmDeletePage(P, page_id) ==
  IF ~Resident(P, page_id) THEN [P |-> P, ok |-> TRUE]
  ELSE LET f == P.page_table[page_id] IN
       IF P.pages[f].pin_count > 0 THEN [P |-> P, ok |-> FALSE]
       ELSE [P |-> [P EXCEPT !.page_table = Restrict(@, DOMAIN @ \ {page_id}),
                             !.replacer = ReplacerRemove(@, f),
                             !.free_list = Append(@, f),
                             !.pages[f] = EmptyPage],
             ok |-> TRUE]

(***************************************************************************)
(* Extendible hash index: header, directory and bucket pages.  The page   *)
(* classes are declared in the headers only; their bodies follow the      *)
(* documented layout: a directory of 2^global_depth slots addressed by    *)
(* the low global_depth bits, buckets packed in insertion order.          *)
(***************************************************************************)
Keys == 0 .. (MaxKey - 1)

\* hash_fn_.GetHash(key) as uint32_t; the injected function is the identity
\* and the keys are non-negative, so the conversion changes nothing
Hash(key) == key

\* The value stored with a key
ValueOf(key) == key + 10

\* ExtendibleHTableHeaderPage::Init
HeaderInit(max_depth) ==
  [max_depth |-> max_depth,
   directory_page_ids |-> [i \in 0 .. (2 ^ max_depth - 1) |-> INVALID_PAGE_ID]]

\* ExtendibleHTableHeaderPage::HashToDirectoryIndex: the top max_depth bits
HashToDirectoryIndex(header, hash) ==
  IF header.max_depth = 0 THEN 0 ELSE (hash \div (2 ^ (31 - header.max_depth))) \div 2

\* ExtendibleHTableDirectoryPage::Init
DirectoryInit(max_depth) ==
  [max_depth |-> max_depth,
   global_depth |-> 0,
   local_depths |-> [i \in 0 .. (2 ^ max_depth - 1) |-> 0],
   bucket_page_ids |-> [i \in 0 .. (2 ^ max_depth - 1) |-> INVALID_PAGE_ID]]

\* ExtendibleHTableDirectoryPage::HashToBucketIndex: the low global_depth bits
HashToBucketIndex(dir, hash) == hash % (2 ^ dir.global_depth)

DirectorySize(dir) == 2 ^ dir.global_depth
DirectoryMaxSize(dir) == 2 ^ dir.max_depth

SetBucketPageId(dir, bucket_idx, bucket_page_id) ==
  [dir EXCEPT !.bucket_page_ids[bucket_idx] = bucket_page_id]

SetLocalDepth(dir, bucket_idx, local_depth) ==
  [dir EXCEPT !.local_depths[bucket_idx] = local_depth]

IncrLocalDepth(dir, bucket_idx) ==
  [dir EXCEPT !.local_depths[bucket_idx] = @ + 1]

\* Doubles the directory: every new slot inherits the bucket page id and
\* the local depth of its sibling
IncrGlobalDepth(dir) ==
  LET n == DirectorySize(dir) IN
  IF dir.global_depth >= dir.max_depth THEN dir
  ELSE [dir EXCEPT
          !.global_depth = @ + 1,
          !.local_depths = [i \in DOMAIN @ |->
                              IF i >= n /\ i < 2 * n THEN @[i - n] ELSE @[i]],
          !.bucket_page_ids = [i \in DOMAIN @ |->
                              IF i >= n /\ i < 2 * n THEN @[i - n] ELSE @[i]]]

\* bucket_idx XOR (1 << (local_depth - 1))
GetSplitImageIndex(dir, bucket_idx) ==
  LET d == dir.local_depths[bucket_idx] IN
  IF d = 0 THEN bucket_idx
  ELSE LET bit == 2 ^ (d - 1) IN
       IF (bucket_idx \div bit) % 2 = 0 THEN bucket_idx + bit ELSE bucket_idx - bit

\* ExtendibleHTableBucketPage::Init on a zeroed page
BucketInit(max_size) ==
  [size |-> 0, max_size |-> max_size,
   array |-> [i \in 0 .. (max_size - 1) |-> <<0, 0>>]]

IsFull(b) == b.size = b.max_size
KeyAt(b, i) == b.array[i][1]
ValueAt(b, i) == b.array[i][2]

BucketFind(b, key) == {i \in 0 .. (b.size - 1) : KeyAt(b, i) = key}

BucketLookup(b, key) ==
  LET hits == BucketFind(b, key) IN
  IF hits = {} THEN [found |-> FALSE, value |-> 0]
  ELSE [found |-> TRUE,
        value |-> ValueAt(b, CHOOSE i \in hits : \A j \in hits : i <= j)]

\* Appends the pair; refuses a full bucket and a key already present
BucketInsert(b, key, value) ==
  IF IsFull(b) \/ BucketFind(b, key) # {} THEN [b |-> b, ok |-> FALSE]
  ELSE [b |-> [b EXCEPT !.array[b.size] = <<key, value>>, !.size = @ + 1],
        ok |-> TRUE]

\* Removes the pair and closes the gap; the slot past the new end keeps its bytes
BucketRemove(b, key) ==
  LET hits == BucketFind(b, key) IN
  IF hits = {} THEN [b |-> b, ok |-> FALSE]
  ELSE LET at == CHOOSE i \in hits : \A j \in hits : i <= j IN
       [b |-> [b EXCEPT
                 !.array = [i \in DOMAIN @ |->
                              IF i >= at /\ i + 1 < b.size THEN @[i + 1] ELSE @[i]],
                 !.size = @ - 1],
        ok |-> TRUE]

SetDirectoryPageId(header, directory_idx, directory_page_id) ==
  [header EXCEPT !.directory_page_ids[directory_idx] = directory_page_id]

\* DiskExtendibleHashTable::DiskExtendibleHashTable on a fresh pool: the
\* header is page 0, the directory page 1, the first bucket page 2
NewHashTable(header_max_depth, directory_max_depth, bucket_max_size) ==
  [header_page_id |-> 0,
   header |-> SetDirectoryPageId(HeaderInit(header_max_depth), 0, 1),
   dirs |-> (1 :> SetLocalDepth(
                    SetBucketPageId(DirectoryInit(directory_max_depth), 0, 2), 0, 0)),
   buckets |-> (2 :> BucketInit(bucket_max_size)),
   next_page_id |-> 3,
   header_max_depth |-> header_max_depth,
   directory_max_depth |-> directory_max_depth,
   bucket_max_size |-> bucket_max_size]

\* The walk shared by GetValue, Insert and Remove: header -> directory -> bucket
Walk(T, key) ==
  LET hash_key == Hash(key)
      directory_index == HashToDirectoryIndex(T.header, hash_key)
      directory_page_id == T.header.directory_page_ids[directory_index]
      bucket_index == HashToBucketIndex(T.dirs[directory_page_id], hash_key)
  IN [hash_key |-> hash_key,
      directory_page_id |-> directory_page_id,
      bucket_index |-> bucket_index,
      bucket_page_id |-> T.dirs[directory_page_id].bucket_page_ids[bucket_index]]

GetValue(T, key) ==
  LET w == Walk(T, key)
      r == BucketLookup(T.buckets[w.bucket_page_id], key)
  IN [found |-> r.found, result |-> IF r.found THEN <<r.value>> ELSE <<>>]

\* Insert, the directory part of a split, with the local depth left alone
InsertUpdateDirectoryKeepingLocalDepth(dir, bucket_index, split_image_page_id) ==
  IF dir.global_depth = dir.local_depths[bucket_index]
  THEN IF DirectorySize(dir) = DirectoryMaxSize(dir)
       THEN [dir |-> dir, ok |-> FALSE]
       ELSE LET grown == IncrGlobalDepth(dir)
                split_image_index ==
                  GetSplitImageIndex(IncrLocalDepth(grown, bucket_index), bucket_index)
            IN [dir |-> SetBucketPageId(grown, split_image_index, split_image_page_id),
                ok |-> TRUE]
  ELSE [dir |-> dir, ok |-> TRUE]

\* The directory update that refuses whenever the directory has its largest
\* size, whatever the local depth of the bucket
InsertUpdateDirectoryRefusingAtMaxSize(dir, bucket_index, split_image_page_id) ==
  IF DirectorySize(dir) = DirectoryMaxSize(dir)
  THEN [dir |-> dir, ok |-> FALSE]
  ELSE IF dir.global_depth = dir.local_depths[bucket_index]
  THEN LET grown == IncrGlobalDepth(IncrLocalDepth(dir, bucket_index))
           split_image_index == GetSplitImageIndex(grown, bucket_index)
       IN [dir |-> SetBucketPageId(grown, split_image_index, split_image_page_id),
           ok |-> TRUE]
  ELSE [dir |-> dir, ok |-> TRUE]

\* Insert, the directory part of a split
InsertUpdateDirectory(dir, bucket_index, split_image_page_id) ==
  IF dir.global_depth = dir.local_depths[bucket_index]
  THEN IF DirectorySize(dir) = DirectoryMaxSize(dir)
       THEN [dir |-> dir, ok |-> FALSE]
       ELSE LET grown == IncrGlobalDepth(IncrLocalDepth(dir, bucket_index))
                split_image_index == GetSplitImageIndex(grown, bucket_index)
            IN [dir |-> SetBucketPageId(grown, split_image_index, split_image_page_id),
                ok |-> TRUE]
  ELSE IF dir.global_depth < dir.local_depths[bucket_index]
  THEN LET deeper == IncrLocalDepth(dir, bucket_index)
           split_image_index == GetSplitImageIndex(deeper, bucket_index)
       IN [dir |-> SetBucketPageId(deeper, split_image_index, split_image_page_id),
           ok |-> TRUE]
  ELSE [dir |-> dir, ok |-> TRUE]

\* A rehash loop that moves no entry
RehashMovingNothing(dir, bucket_index, bucket, split_image, i, bucket_size) ==
  [bucket |-> bucket, split_image |-> split_image]

\* Insert, the rehash loop: i runs over the size the bucket had before the
\* loop while the loop removes entries from the bucket
RECURSIVE Rehash(_, _, _, _, _, _)
Rehash(dir, bucket_index, bucket, split_image, i, bucket_size) ==
  IF i >= bucket_size THEN [bucket |-> bucket, split_image |-> split_image]
  ELSE LET i_key == KeyAt(bucket, i)
           i_value == ValueAt(bucket, i)
       IN IF bucket_index = HashToBucketIndex(dir, Hash(i_key))
          THEN Rehash(dir, bucket_index, bucket, split_image, i + 1, bucket_size)
          ELSE Rehash(dir, bucket_index,
                      BucketRemove(bucket, i_key).b,
                      BucketInsert(split_image, i_key, i_value).b,
                      i + 1, bucket_size)

\* An Insert that raises the bucket's local depth before it tests whether the
\* directory can grow, and so leaves the raised depth behind when it refuses
InsertIncrementingBeforeSizeTest(T, key, value) ==
  LET w == Walk(T, key)
      dir == T.dirs[w.directory_page_id]
      bucket == T.buckets[w.bucket_page_id]
  IN
  IF ~IsFull(bucket)
  THEN [T |-> [T EXCEPT !.buckets[w.bucket_page_id] = BucketInsert(bucket, key, value).b],
        ok |-> TRUE]
  ELSE
    LET split_image_page_id == T.next_page_id
        paged == [T EXCEPT !.next_page_id = @ + 1,
                           !.buckets = @ @@ (split_image_page_id :>
                                               BucketInit(T.bucket_max_size))]
        upd == InsertUpdateDirectory(dir, w.bucket_index, split_image_page_id)
    IN
    IF ~upd.ok
    THEN [T |-> [paged EXCEPT !.dirs[w.directory_page_id] =
                                 IncrLocalDepth(dir, w.bucket_index)],
          ok |-> FALSE]
    ELSE
      LET moved == Rehash(upd.dir, w.bucket_index, bucket,
                          paged.buckets[split_image_page_id], 0, bucket.size)
          to_old == w.bucket_index = HashToBucketIndex(upd.dir, w.hash_key)
          old_page == IF to_old THEN BucketInsert(moved.bucket, key, value).b
                      ELSE moved.bucket
          new_page == IF to_old THEN moved.split_image
                      ELSE BucketInsert(moved.split_image, key, value).b
      IN [T |-> [paged EXCEPT !.dirs[w.directory_page_id] = upd.dir,
                              !.buckets[w.bucket_page_id] = old_page,
                              !.buckets[split_image_page_id] = new_page],
          ok |-> TRUE]

\* Insert on a full bucket once NewPage has made the split image page (lines
\* 147-207; the page id came from the pool's AllocatePage at line 146):
\* Init of the page, the directory update or the refusal, the rehash, the insert
InsertSplit(T, key, value, split_image_page_id) ==
  LET w == Walk(T, key)
      dir == T.dirs[w.directory_page_id]
      bucket == T.buckets[w.bucket_page_id]
      paged == [T EXCEPT !.buckets = @ @@ (split_image_page_id :>
                                             BucketInit(T.bucket_max_size))]
      upd == InsertUpdateDirectory(dir, w.bucket_index, split_image_page_id)
  IN
  IF ~upd.ok THEN [T |-> paged, ok |-> FALSE]
  ELSE
    LET moved == Rehash(upd.dir, w.bucket_index, bucket,
                        paged.buckets[split_image_page_id], 0, bucket.size)
        to_old == w.bucket_index = HashToBucketIndex(upd.dir, w.hash_key)
        old_page == IF to_old THEN BucketInsert(moved.bucket, key, value).b
                    ELSE moved.bucket
        new_page == IF to_old THEN moved.split_image
                    ELSE BucketInsert(moved.split_image, key, value).b
    IN [T |-> [paged EXCEPT !.dirs[w.directory_page_id] = upd.dir,
                            !.buckets[w.bucket_page_id] = old_page,
                            !.buckets[split_image_page_id] = new_page],
        ok |-> TRUE]

Insert(T, key, value) ==
  LET w == Walk(T, key)
      bucket == T.buckets[w.bucket_page_id]
  IN
  IF ~IsFull(bucket)
  THEN [T |-> [T EXCEPT !.buckets[w.bucket_page_id] = BucketInsert(bucket, key, value).b],
        ok |-> TRUE]
  ELSE InsertSplit(AllocatePage(T), key, value, T.next_page_id)

\* A Remove that takes the bucket of directory slot 0 whatever the hash is
RemoveFromSlotZero(T, key) ==
  LET w == Walk(T, key)
      page_id == T.dirs[w.directory_page_id].bucket_page_ids[0]
      r == BucketRemove(T.buckets[page_id], key)
  IN [T |-> [T EXCEPT !.buckets[page_id] = r.b], ok |-> r.ok]

Remove(T, key) ==
  LET w == Walk(T, key)
      r == BucketRemove(T.buckets[w.bucket_page_id], key)
  IN [T |-> [T EXCEPT !.buckets[w.bucket_page_id] = r.b], ok |-> r.ok]

\* No hash table exists
HashIdle ==
  /\ ht = <<>>
  /\ ht_expect = <<>>
  /\ ht_trace = <<>>
  /\ threads = <<>>

\* No disk scheduler exists
SchedIdle == sched = <<>>

(***************************************************************************)
(* Disk scheduler (src/storage/disk/disk_scheduler.cpp).  A scheduler S is *)
(* a record: request_queue (the channel of optional requests), worker (the *)
(* position of the background thread: "get", "io", "signal", "returned"),  *)
(* disk_request (the request the worker holds), disk (the disk manager's   *)
(* pages), callback (per request, the number of set_value calls), dtor     *)
(* (the destructor: "none", "join", "done"), and two histories: scheduled  *)
(* (the requests in the order Schedule enqueued them) and log (the disk    *)
(* I/O and completion events in the order they happened).                  *)
(***************************************************************************)
MaxRequests == 3
SchedPages == 2

SchedPageIds == 0 .. (SchedPages - 1)

\* std::nullopt
Nullopt == [has_value |-> FALSE]

\* A DiskRequest; id is its position in the enqueue order, data what its
\* buffer holds (a write carries bytes of its own, a read a buffer to fill)
DiskRequest(id, is_write, page_id) ==
  [has_value |-> TRUE, id |-> id, is_write_ |-> is_write, page_id_ |-> page_id,
   data_ |-> IF is_write THEN id ELSE 0]

\* Channel::Put
ChannelPut(q, element) == Append(q, element)

\* A Get that takes the newest element instead of the oldest
ChannelGetNewest(q) == [element |-> q[Len(q)], q |-> SubSeq(q, 1, Len(q) - 1)]

\* Channel::Get on a queue that is not empty (it blocks on an empty one)
ChannelGet(q) == [element |-> Head(q), q |-> Tail(q)]

\* DiskScheduler::DiskScheduler: the worker is spawned and is about to Get
NewScheduler ==
  [request_queue |-> <<>>, worker |-> "get", disk_request |-> Nullopt,
   disk |-> [p \in SchedPageIds |-> 0], callback |-> <<>>, dtor |-> "none",
   scheduled |-> <<>>, log |-> <<>>]

\* DiskScheduler::Schedule
Schedule(S, r) ==
  [S EXCEPT !.request_queue = ChannelPut(@, r),
            !.callback = Append(@, 0),
            !.scheduled = Append(@, r)]

\* DiskScheduler::~DiskScheduler up to the join
DestructorPut(S) ==
  [S EXCEPT !.request_queue = ChannelPut(@, Nullopt), !.dtor = "join"]

\* A worker that goes on to the next Get when it reads std::nullopt
WorkerGetIgnoringSentinel(S) ==
  LET g == ChannelGet(S.request_queue) IN
  IF ~g.element.has_value
    THEN [S EXCEPT !.request_queue = g.q]
    ELSE [S EXCEPT !.request_queue = g.q, !.disk_request = g.element, !.worker = "io"]

\* StartWorkerThread: request_queue_.Get() and the test of has_value()
WorkerGet(S) ==
  LET g == ChannelGet(S.request_queue) IN
  IF ~g.element.has_value
    THEN [S EXCEPT !.request_queue = g.q, !.worker = "returned"]
    ELSE [S EXCEPT !.request_queue = g.q, !.disk_request = g.element, !.worker = "io"]

\* A worker that performs the writes only
WorkerIoWritesOnly(S) ==
  LET r == S.disk_request IN
  IF r.is_write_
    THEN [S EXCEPT !.disk[r.page_id_] = r.data_,
                   !.log = Append(@, [kind |-> "io", id |-> r.id, is_write |-> TRUE,
                                      page_id |-> r.page_id_, data |-> r.data_]),
                   !.worker = "signal"]
    ELSE [S EXCEPT !.worker = "signal"]

\* StartWorkerThread: WritePage or ReadPage of the disk manager
WorkerIo(S) ==
  LET r == S.disk_request IN
  IF r.is_write_
    THEN [S EXCEPT !.disk[r.page_id_] = r.data_,
                   !.log = Append(@, [kind |-> "io", id |-> r.id, is_write |-> TRUE,
                                      page_id |-> r.page_id_, data |-> r.data_]),
                   !.worker = "signal"]
    ELSE [S EXCEPT !.log = Append(@, [kind |-> "io", id |-> r.id, is_write |-> FALSE,
                                      page_id |-> r.page_id_,
                                      data |-> S.disk[r.page_id_]]),
                   !.worker = "signal"]

\* StartWorkerThread: callback_.set_value(true), then the next round of the loop
WorkerSignal(S) ==
  LET r == S.disk_request IN
  [S EXCEPT !.callback[r.id] = @ + 1,
            !.log = Append(@, [kind |-> "signal", id |-> r.id, value |-> TRUE]),
            !.disk_request = Nullopt,
            !.worker = "get"]

(***************************************************************************)
(* The stand-alone replacer driven by arbitrary calls                      *)
(***************************************************************************)
RFrames == 0 .. (ReplacerFrames - 1)

\* No buffer pool exists
PoolIdle ==
  /\ pool = NewPool(0, 1)
  /\ guards = <<>>
  /\ latch = <<>>
  /\ raw_pins = <<>>
  /\ appends = <<>>
  /\ unsaved = {}
  /\ crash = "no"

Out(op, frame, flag, ok, res) ==
  [op |-> op, frame |-> frame, flag |-> flag, ok |-> ok, res |-> res]

RInit ==
  /\ \E k \in 1 .. MaxK : replacer = NewReplacer(ReplacerFrames, k)
  /\ rep_out = Out("none", NoFrame, FALSE, TRUE, NoFrame)
  /\ PoolIdle
  /\ HashIdle
  /\ SchedIdle

Alive == rep_out.ok \/ rep_out.op = "Evict"

RRecordAccess(f) ==
  /\ Alive
  /\ replacer.current_timestamp < MaxTime
  /\ replacer' = ReplacerRecordAccess(replacer, f)
  /\ rep_out' = Out("RecordAccess", f, FALSE, TRUE, NoFrame)
  /\ UNCHANGED <<pvars, hvars, svars>>

\* SetEvictable: BUSTUB_ASSERT(false) on an untracked frame
RSetEvictable(f, b) ==
  /\ Alive
  /\ IF f \in Tracked(replacer)
       THEN /\ replacer' = ReplacerSetEvictable(replacer, f, b)
            /\ rep_out' = Out("SetEvictable", f, b, TRUE, NoFrame)
       ELSE /\ replacer' = replacer
            /\ rep_out' = Out("SetEvictable", f, b, FALSE, NoFrame)
  /\ UNCHANGED <<pvars, hvars, svars>>

\* Remove: BUSTUB_ASSERT(false) on a tracked frame that is not evictable
RRemove(f) ==
  /\ Alive
  /\ IF f \in Tracked(replacer) /\ ~replacer.node_store[f].is_evictable
       THEN /\ replacer' = replacer
            /\ rep_out' = Out("Remove", f, FALSE, FALSE, NoFrame)
       ELSE /\ replacer' = ReplacerRemove(replacer, f)
            /\ rep_out' = Out("Remove", f, FALSE, TRUE, NoFrame)
  /\ UNCHANGED <<pvars, hvars, svars>>

REvict ==
  /\ Alive
  /\ \E o \in EvictOutcomes(replacer) :
       /\ replacer' = o.r
       /\ rep_out' = Out("Evict", NoFrame, FALSE, o.ok, o.frame_id)
  /\ UNCHANGED <<pvars, hvars, svars>>

RNext ==
  \/ \E f \in RFrames : RRecordAccess(f)
  \/ \E f \in RFrames, b \in BOOLEAN : RSetEvictable(f, b)
  \/ \E f \in RFrames : RRemove(f)
  \/ REvict

SpecReplacer == RInit /\ [][RNext]_vars

(***************************************************************************)
(* Page guards (src/storage/page/page_guard.cpp) over the frame latches    *)
(***************************************************************************)
Frames == 0 .. (PoolSize - 1)
PageIds == 0 .. (MaxPages - 1)
GuardIds == 1 .. GuardSlots

\* A guard slot holding no object
NoGuard ==
  [obj |-> "none", kind |-> "basic", bpm |-> FALSE, page |-> NoFrame, is_dirty |-> FALSE,
   for_page |-> INVALID_PAGE_ID, from |-> 0, gave |-> FALSE, tmp |-> -1]

\* BasicPageGuard(bpm, page), ReadPageGuard(bpm, page), WritePageGuard(bpm, page);
\* for_page, from and gave record the page it was acquired for, the guard it
\* was upgraded from, and that it was itself upgraded (its pin handed over)
MakeGuard(kind, frame, page_id, from) ==
  [obj |-> "live", kind |-> kind, bpm |-> TRUE, page |-> frame, is_dirty |-> FALSE,
   for_page |-> page_id, from |-> from, gave |-> FALSE, tmp |-> -1]

\* A guard is active iff it holds a frame
Active(g) == g.obj = "live" /\ g.page # NoFrame

\* this->bpm_ = nullptr; this->page_ = nullptr;
Inert(g) == [g EXCEPT !.bpm = FALSE, !.page = NoFrame, !.gave = FALSE, !.tmp = -1]

\* if (page_->GetPinCount() != 0) bpm_->UnpinPage(PageId(), is_dirty_);
UnpinIfPinned(P, g) ==
  IF P.pages[g.page].pin_count # 0
    THEN BpmUnpinPage(P, P.pages[g.page].page_id, g.is_dirty).P
    ELSE P

\* Page::RLatch / WLatch can be taken; RUnlatch / WUnlatch
CanRLatch(L, f) == ~L[f].writer
CanWLatch(L, f) == ~L[f].writer /\ L[f].readers = 0
RLatch(L, f) == [L EXCEPT ![f].readers = @ + 1]
WLatch(L, f) == [L EXCEPT ![f].writer = TRUE]
RUnlatch(L, f) == [L EXCEPT ![f].readers = @ - 1]
WUnlatch(L, f) == [L EXCEPT ![f].writer = FALSE]
CanLatch(L, kind, f) == IF kind = "read" THEN CanRLatch(L, f) ELSE CanWLatch(L, f)
Latch(L, kind, f) == IF kind = "read" THEN RLatch(L, f) ELSE WLatch(L, f)

\* ReadPageGuard::Drop / WritePageGuard::Drop: the latch released after the unpin
Unlatch(L, g) ==
  IF g.kind = "read" THEN RUnlatch(L, g.page)
  ELSE IF g.kind = "write" THEN WUnlatch(L, g.page)
  ELSE L

\* BasicPageGuard::operator=: the destination unpins its page, then takes over
\* the source's fields; a latch the destination holds is not touched
MoveAssigned(dst, src) ==
  [dst EXCEPT !.bpm = src.bpm, !.page = src.page, !.is_dirty = src.is_dirty,
              !.for_page = src.for_page, !.from = src.from, !.gave = src.gave,
              !.tmp = src.tmp]

\* The ways the process dies in the guards: each is page_->GetPinCount() on a
\* null page_, a fault of the process and not a check of the code
NullDereference ==
  {"drop of an inert guard", "move construction of a latched guard",
   "move assignment to an inert guard"}

(***************************************************************************)
(* The buffer pool used by clients through raw calls and through guards    *)
(***************************************************************************)
PInit ==
  /\ \E k \in 1 .. MaxK : pool = NewPool(PoolSize, k)
  /\ guards = [g \in GuardIds |-> NoGuard]
  /\ latch = [f \in Frames |-> [readers |-> 0, writer |-> FALSE]]
  /\ raw_pins = [p \in PageIds |-> 0]
  /\ appends = [p \in PageIds |-> 0]
  /\ unsaved = {}
  /\ crash = "no"
  /\ replacer = NewReplacer(0, 1)
  /\ rep_out = Out("none", NoFrame, FALSE, TRUE, NoFrame)
  /\ HashIdle
  /\ SchedIdle

CanAccess == pool.replacer.current_timestamp < MaxPoolTime
Allocated == 0 .. (pool.next_page_id - 1)

\* A client calls NewPage and keeps the pin
PNewPage ==
  /\ crash = "no" /\ CanAccess /\ pool.next_page_id < MaxPages
  /\ \E o \in BpmNewPage(pool) :
       /\ pool' = o.P
       /\ raw_pins' = IF o.frame # NoFrame
                        THEN [raw_pins EXCEPT ![o.page_id] = @ + 1] ELSE raw_pins
  /\ UNCHANGED <<guards, latch, appends, unsaved, crash, rvars, hvars, svars>>

\* A client calls FetchPage and keeps the pin
PFetchPage(p) ==
  /\ crash = "no" /\ CanAccess /\ p \in Allocated
  /\ \E o \in BpmFetchPage(pool, p) :
       /\ pool' = o.P
       /\ raw_pins' = IF o.frame # NoFrame
                        THEN [raw_pins EXCEPT ![p] = @ + 1] ELSE raw_pins
  /\ UNCHANGED <<guards, latch, appends, unsaved, crash, rvars, hvars, svars>>

\* A client calls UnpinPage for a pin it took, or for a page that has no pin;
\* a client that wrote the page says so
PUnpinPage(p, d) ==
  /\ crash = "no" /\ p \in Allocated
  /\ raw_pins[p] > 0 \/ ~BpmUnpinPage(pool, p, d).ok
  /\ p \in unsaved => d
  /\ pool' = BpmUnpinPage(pool, p, d).P
  /\ raw_pins' = IF raw_pins[p] > 0 THEN [raw_pins EXCEPT ![p] = @ - 1] ELSE raw_pins
  /\ unsaved' = IF d /\ raw_pins[p] > 0 THEN unsaved \ {p} ELSE unsaved
  /\ UNCHANGED <<guards, latch, appends, crash, rvars, hvars, svars>>

\* A client that holds a pin writes the page's buffer (GetData of the Page)
PWritePage(p) ==
  /\ crash = "no" /\ p \in Allocated
  /\ raw_pins[p] > 0 /\ Resident(pool, p)
  /\ p < MaxWritePages
  /\ pool.pages[pool.page_table[p]].data < MaxAppends
  /\ pool' = [pool EXCEPT !.pages[pool.page_table[p]].data = @ + 1]
  /\ appends' = [appends EXCEPT ![p] = pool.pages[pool.page_table[p]].data + 1]
  /\ unsaved' = unsaved \cup {p}
  /\ UNCHANGED <<guards, latch, raw_pins, crash, rvars, hvars, svars>>

PFlushPage(p) ==
  /\ crash = "no" /\ p \in Allocated
  /\ pool' = BpmFlushPage(pool, p).P
  /\ UNCHANGED <<guards, latch, raw_pins, appends, unsaved, crash, rvars, hvars, svars>>

PDeletePage(p) ==
  /\ crash = "no" /\ p \in Allocated
  /\ pool' = BpmDeletePage(pool, p).P
  /\ UNCHANGED <<guards, latch, raw_pins, appends, unsaved, crash, rvars, hvars, svars>>

\* BufferPoolManager::NewPageGuarded: return {this, NewPage(page_id)}
PNewPageGuarded(g) ==
  /\ crash = "no" /\ CanAccess /\ pool.next_page_id < MaxPages
  /\ guards[g].obj = "none"
  /\ \E o \in BpmNewPage(pool) :
       /\ pool' = o.P
       /\ guards' = [guards EXCEPT ![g] = MakeGuard("basic", o.frame, o.page_id, 0)]
  /\ UNCHANGED <<latch, raw_pins, appends, unsaved, crash, rvars, hvars, svars>>

\* BufferPoolManager::FetchPageBasic: return {this, FetchPage(page_id)}
PFetchPageBasic(g, p) ==
  /\ crash = "no" /\ CanAccess /\ p \in Allocated
  /\ guards[g].obj = "none"
  /\ \E o \in BpmFetchPage(pool, p) :
       /\ pool' = o.P
       /\ guards' = [guards EXCEPT ![g] = MakeGuard("basic", o.frame,
                        IF o.frame = NoFrame THEN INVALID_PAGE_ID ELSE p, 0)]
  /\ UNCHANGED <<latch, raw_pins, appends, unsaved, crash, rvars, hvars, svars>>

\* BufferPoolManager::FetchPageRead / FetchPageWrite, first half: FetchPage;
\* with no frame the guard returned is inert, else the caller goes for the latch
PFetchPageLatched(g, kind, p) ==
  /\ crash = "no" /\ CanAccess /\ p \in Allocated
  /\ guards[g].obj = "none"
  /\ \E o \in BpmFetchPage(pool, p) :
       /\ pool' = o.P
       /\ guards' = [guards EXCEPT ![g] =
            IF o.frame = NoFrame
              THEN MakeGuard(kind, NoFrame, INVALID_PAGE_ID, 0)
              ELSE [MakeGuard(kind, o.frame, p, 0) EXCEPT !.obj = "wait"]]
  /\ UNCHANGED <<latch, raw_pins, appends, unsaved, crash, rvars, hvars, svars>>

\* FetchPageRead / FetchPageWrite, second half: the latch is taken, the guard returned
PAcquireLatch(g) ==
  /\ crash = "no"
  /\ guards[g].obj = "wait"
  /\ CanLatch(latch, guards[g].kind, guards[g].page)
  /\ latch' = Latch(latch, guards[g].kind, guards[g].page)
  /\ guards' = [guards EXCEPT ![g].obj = "live"]
  /\ UNCHANGED <<pool, raw_pins, appends, unsaved, crash, rvars, hvars, svars>>

\* BasicPageGuard::Drop, and the first statement of ReadPageGuard::Drop and
\* WritePageGuard::Drop: UnpinPage unless the pin count is 0.  The basic guard
\* is inert after it; a read or write guard still holds its latch ("dropping")
\* and other threads run before it releases it.
\* On an inert guard page_ is nullptr and page_->GetPinCount() dereferences it.
PDrop(g) ==
  /\ crash = "no"
  /\ guards[g].obj = "live"
  /\ IF guards[g].page = NoFrame
       THEN /\ crash' = "drop of an inert guard"
            /\ UNCHANGED <<pool, guards>>
       ELSE /\ pool' = UnpinIfPinned(pool, guards[g])
            /\ guards' = [guards EXCEPT ![g] =
                            IF @.kind = "basic" THEN Inert(@)
                            ELSE [@ EXCEPT !.obj = "dropping"]]
            /\ crash' = crash
  /\ UNCHANGED <<latch, raw_pins, appends, unsaved, rvars, hvars, svars>>

\* ~BasicPageGuard, ~ReadPageGuard, ~WritePageGuard: Drop if bpm_ and page_ are
\* set.  The destructor of a read or write guard is in its Drop after the
\* unpin ("destroying") until the latch is released.
PDestroy(g) ==
  /\ crash = "no"
  /\ guards[g].obj = "live"
  /\ IF guards[g].bpm /\ guards[g].page # NoFrame
       THEN /\ pool' = UnpinIfPinned(pool, guards[g])
            /\ guards' = [guards EXCEPT ![g] =
                            IF @.kind = "basic" THEN NoGuard
                            ELSE [@ EXCEPT !.obj = "destroying"]]
       ELSE /\ pool' = pool
            /\ guards' = [guards EXCEPT ![g] = NoGuard]
  /\ UNCHANGED <<latch, raw_pins, appends, unsaved, crash, rvars, hvars, svars>>

\* The rest of ReadPageGuard::Drop and WritePageGuard::Drop: RUnlatch() or
\* WUnlatch(), then page_ and bpm_ set to nullptr; a destructor ends with it
PDropUnlatch(g) ==
  /\ crash = "no"
  /\ guards[g].obj \in {"dropping", "destroying"}
  /\ latch' = Unlatch(latch, guards[g])
  /\ guards' = [guards EXCEPT ![g] =
                  IF @.obj = "dropping" THEN [Inert(@) EXCEPT !.obj = "live"]
                  ELSE NoGuard]
  /\ UNCHANGED <<pool, raw_pins, appends, unsaved, crash, rvars, hvars, svars>>

\* BasicPageGuard(BasicPageGuard &&that) copies the fields and empties that.
\* ReadPageGuard(ReadPageGuard &&) and WritePageGuard(WritePageGuard &&) run
\* guard_ = std::move(that.guard_) on the new, inert guard_: page_ is nullptr there.
PMoveConstruct(g, src) ==
  /\ crash = "no"
  /\ g # src
  /\ guards[g].obj = "none" /\ guards[src].obj = "live"
  /\ IF guards[src].kind = "basic"
       THEN /\ guards' = [guards EXCEPT ![g] = [guards[src] EXCEPT !.obj = "live"],
                                        ![src] = Inert(@)]
            /\ crash' = crash
       ELSE /\ crash' = "move construction of a latched guard"
            /\ guards' = guards
  /\ UNCHANGED <<pool, latch, raw_pins, appends, unsaved, rvars, hvars, svars>>

\* operator=(&&) of the three guards: BasicPageGuard::operator= on the guard or its guard_
PMoveAssign(g, src) ==
  /\ crash = "no"
  /\ g # src
  /\ guards[g].obj = "live" /\ guards[src].obj = "live"
  /\ guards[g].kind = guards[src].kind
  /\ IF guards[g].page = NoFrame
       THEN /\ crash' = "move assignment to an inert guard"
            /\ UNCHANGED <<pool, guards>>
       ELSE /\ pool' = UnpinIfPinned(pool, guards[g])
            /\ guards' = [guards EXCEPT ![g] = MoveAssigned(@, guards[src]),
                                        ![src] = Inert(@)]
            /\ crash' = crash
  /\ UNCHANGED <<latch, raw_pins, appends, unsaved, rvars, hvars, svars>>

\* BasicPageGuard::UpgradeRead / UpgradeWrite on an active basic guard:
\* page_->RLatch() or WLatch(); return {bpm_, page_}; this guard is left as it is
PUpgrade(g, src, kind) ==
  /\ crash = "no"
  /\ g # src
  /\ guards[g].obj = "none"
  /\ guards[src].kind = "basic" /\ Active(guards[src])
  /\ CanLatch(latch, kind, guards[src].page)
  /\ latch' = Latch(latch, kind, guards[src].page)
  /\ guards' = [guards EXCEPT ![g] =
                  MakeGuard(kind, guards[src].page, guards[src].for_page, src),
                                ![src].gave = TRUE]
  /\ UNCHANGED <<pool, raw_pins, appends, unsaved, crash, rvars, hvars, svars>>

\* A section under a write guard takes the bytes by GetDataMut (is_dirty_ = true)
\* and reads them ...
PSectionRead(g) ==
  /\ crash = "no"
  /\ guards[g].kind = "write" /\ Active(guards[g]) /\ guards[g].tmp = -1
  /\ appends[guards[g].for_page] < MaxAppends
  /\ guards' = [guards EXCEPT ![g].tmp = pool.pages[guards[g].page].data,
                                ![g].is_dirty = TRUE]
  /\ UNCHANGED <<pool, latch, raw_pins, appends, unsaved, crash, rvars, hvars, svars>>

\* ... and writes them back, one character longer, through the same pointer
PSectionWrite(g) ==
  /\ crash = "no"
  /\ guards[g].kind = "write" /\ Active(guards[g]) /\ guards[g].tmp # -1
  /\ pool' = [pool EXCEPT !.pages[guards[g].page].data = guards[g].tmp + 1]
  /\ guards' = [guards EXCEPT ![g].tmp = -1]
  /\ appends' = [appends EXCEPT ![guards[g].for_page] = @ + 1]
  /\ UNCHANGED <<latch, raw_pins, unsaved, crash, rvars, hvars, svars>>

\* Clients that use the raw calls only
PNext ==
  \/ PNewPage
  \/ \E p \in PageIds : PFetchPage(p)
  \/ \E p \in PageIds, d \in BOOLEAN : PUnpinPage(p, d)
  \/ \E p \in PageIds : PFlushPage(p)
  \/ \E p \in PageIds : PDeletePage(p)

SpecPool == PInit /\ [][PNext]_vars

\* Clients that also write the pages they hold, unpin, flush, and make the
\* pool evict and fetch again
WInit == PInit /\ pool.replacer.k = MaxK

WNext ==
  \/ PNewPage
  \/ \E p \in PageIds : PFetchPage(p)
  \/ \E p \in PageIds, d \in BOOLEAN : PUnpinPage(p, d)
  \/ \E p \in PageIds : PWritePage(p)
  \/ \E p \in PageIds : PFlushPage(p)

SpecPoolWrite == WInit /\ [][WNext]_vars

\* Clients that hold pages through guards, next to raw NewPage/FetchPage/UnpinPage
GInit == PInit /\ pool.replacer.k = MaxK

\* The clients of the guards make MaxGuardTime NewPage/FetchPage calls in all
WithinGuardTime == pool.replacer.current_timestamp < MaxGuardTime

GNext ==
  \/ WithinGuardTime /\ PNewPage
  \/ WithinGuardTime /\ \E p \in PageIds : PFetchPage(p)
  \/ \E p \in PageIds, d \in BOOLEAN : PUnpinPage(p, d)
  \/ WithinGuardTime /\ \E g \in GuardIds : PNewPageGuarded(g)
  \/ WithinGuardTime /\ \E g \in GuardIds, p \in PageIds : PFetchPageBasic(g, p)
  \/ WithinGuardTime /\ \E g \in GuardIds, p \in PageIds, kind \in {"read", "write"} : PFetchPageLatched(g, kind, p)
  \/ \E g \in GuardIds : PAcquireLatch(g)
  \/ \E g \in GuardIds : PDrop(g)
  \/ \E g \in GuardIds : PDestroy(g)
  \/ \E g \in GuardIds : PDropUnlatch(g)
  \/ \E g, src \in GuardIds : PMoveConstruct(g, src)
  \/ \E g, src \in GuardIds : PMoveAssign(g, src)
  \/ \E g, src \in GuardIds, kind \in {"read", "write"} : PUpgrade(g, src, kind)
  \/ \E g \in GuardIds : PSectionRead(g)
  \/ \E g \in GuardIds : PSectionWrite(g)

SpecGuards == GInit /\ [][GNext]_vars

\* Threads that hold pages through read and write guards and release them,
\* next to threads that create pages
LInit == PInit /\ pool.replacer.k = MaxK

LNext ==
  \/ PNewPage
  \/ \E p \in PageIds, d \in BOOLEAN : PUnpinPage(p, d)
  \/ \E g \in GuardIds, p \in PageIds, kind \in {"read", "write"} : PFetchPageLatched(g, kind, p)
  \/ \E g \in GuardIds : PAcquireLatch(g)
  \/ \E g \in GuardIds : PDrop(g)
  \/ \E g \in GuardIds : PDestroy(g)
  \/ \E g \in GuardIds : PDropUnlatch(g)

SpecGuardRelease == LInit /\ [][LNext]_vars

(***************************************************************************)
(* Claims about the buffer pool                                            *)
(***************************************************************************)
PinCount(P, page_id) ==
  IF Resident(P, page_id) THEN P.pages[P.page_table[page_id]].pin_count ELSE 0

\* A step of the pool in which every page a client got stays pinned and out of
\* the replacer's reach, and no pinned frame changes its page
C1Step ==
  /\ \A p \in PageIds :
       raw_pins'[p] > raw_pins[p] =>
         /\ Resident(pool', p)
         /\ PinCount(pool', p) >= 1
         /\ pool'.page_table[p] \notin EvictableFrames(pool'.replacer)
  /\ \A f \in Frames :
       pool.pages[f].pin_count >= 1 =>
         /\ f \notin EvictableFrames(pool.replacer)
         /\ pool'.pages[f].page_id = pool.pages[f].page_id

\* C1: a page returned by NewPage or FetchPage has pin count >= 1 and a
\* non-evictable frame, and a frame with pin count >= 1 is never taken as a
\* victim: its page stays resident in it until the pin count is back to 0.
C1_PinnedPageStays == [][C1Step]_vars

\* A pinned page is still in its frame after later NewPage calls replaced the
\* page of the other frame
C1_Witness ==
  /\ pool.next_page_id > PoolSize
  /\ pool.free_list = <<>>
  /\ Resident(pool, 0) /\ raw_pins[0] >= 1 /\ PinCount(pool, 0) >= 1
  /\ ~Resident(pool, 1)

FreeFrames(P) == {P.free_list[i] : i \in DOMAIN P.free_list}
MappedFrames(P) == {P.page_table[q] : q \in DOMAIN P.page_table}

\* C10: every page-table entry names a valid frame holding that page, no two
\* pages share a frame, and every frame is either in the free list (once) or a
\* value of the page table, never both (no replacement is in progress between
\* two steps of the pool).
C10_PageTableConsistent ==
  /\ \A q \in DOMAIN pool.page_table :
       /\ pool.page_table[q] \in Frames
       /\ pool.pages[pool.page_table[q]].page_id = q
  /\ \A q1, q2 \in DOMAIN pool.page_table :
       pool.page_table[q1] = pool.page_table[q2] => q1 = q2
  /\ Cardinality(FreeFrames(pool)) = Len(pool.free_list)
  /\ FreeFrames(pool) \cap MappedFrames(pool) = {}
  /\ FreeFrames(pool) \cup MappedFrames(pool) = Frames

\* One frame was emptied by DeletePage, the other took a new page by eviction
C10_Witness ==
  /\ pool.next_page_id > PoolSize
  /\ Len(pool.free_list) = 1
  /\ Cardinality(DOMAIN pool.page_table) = PoolSize - 1
  /\ pool.disk # <<>>

\* A step in which a dirty page that leaves its frame for another page is on
\* disk afterwards, and a page brought back from disk has the bytes written
C11Step ==
  /\ \A f \in Frames :
       LET old == pool.pages[f] IN
       (old.is_dirty /\ old.page_id # INVALID_PAGE_ID
          /\ pool'.pages[f].page_id \notin {old.page_id, INVALID_PAGE_ID})
         => DiskRead(pool', old.page_id) = old.data
  /\ \A p \in Allocated :
       (~Resident(pool, p) /\ Resident(pool', p))
         => pool'.pages[pool'.page_table[p]].data = appends[p]

\* C11: bytes written to a page that is then unpinned with is_dirty = true
\* survive eviction: the dirty victim is written to disk before its frame is
\* reused, and a later FetchPage returns the bytes written.
C11_EvictionRoundTrip == [][C11Step]_vars

\* Page 0 was written, left its first frame and is back in another one with
\* the bytes written
C11_Witness ==
  /\ Resident(pool, 0) /\ pool.page_table[0] # 0
  /\ appends[0] >= 1
  /\ pool.pages[pool.page_table[0]].data = appends[0]
  /\ ~pool.pages[pool.page_table[0]].is_dirty
  /\ pool.next_page_id > PoolSize

\* The pool after n calls of UnpinPage(page_id, false)
RECURSIVE UnpinTimes(_, _, _)
UnpinTimes(P, page_id, n) ==
  IF n = 0 THEN P ELSE UnpinTimes(BpmUnpinPage(P, page_id, FALSE).P, page_id, n - 1)

\* C14: UnpinPage returns false and changes nothing for a page that is not
\* resident or has pin count 0; otherwise it takes exactly one pin, ORs
\* is_dirty into the dirty flag, makes the frame evictable exactly when the pin
\* count reached 0, and returns true; a page pinned n times takes n unpins to
\* reach 0 and the next unpin returns false.
C14_UnpinContract ==
  \A p \in PageIds :
    /\ \A d \in BOOLEAN :
         LET r == BpmUnpinPage(pool, p, d) IN
         IF ~Resident(pool, p) \/ PinCount(pool, p) = 0
           THEN r.ok = FALSE /\ r.P = pool
           ELSE LET f == pool.page_table[p] IN
                /\ r.ok = TRUE
                /\ r.P.pages[f].pin_count = pool.pages[f].pin_count - 1
                /\ r.P.pages[f].is_dirty = (pool.pages[f].is_dirty \/ d)
                /\ r.P.pages[f].page_id = p /\ r.P.pages[f].data = pool.pages[f].data
                /\ (f \in EvictableFrames(r.P.replacer)) = (r.P.pages[f].pin_count = 0)
                /\ \A g \in Frames \ {f} :
                     /\ r.P.pages[g] = pool.pages[g]
                     /\ (g \in EvictableFrames(r.P.replacer))
                          = (g \in EvictableFrames(pool.replacer))
                /\ r.P.page_table = pool.page_table /\ r.P.free_list = pool.free_list
                /\ r.P.disk = pool.disk
    /\ Resident(pool, p) =>
         LET n == PinCount(pool, p) IN
         /\ \A m \in 0 .. n : PinCount(UnpinTimes(pool, p, m), p) = n - m
         /\ BpmUnpinPage(UnpinTimes(pool, p, n), p, FALSE).ok = FALSE

\* A page fetched twice and then unpinned to 0, once with is_dirty = true and
\* last with false: it is dirty, evictable, and a further unpin is refused
C14_Witness ==
  \E p \in PageIds :
    /\ Resident(pool, p) /\ PinCount(pool, p) = 0
    /\ pool.pages[pool.page_table[p]].is_dirty
    /\ pool.page_table[p] \in EvictableFrames(pool.replacer)
    /\ raw_pins[p] = 0
    /\ \E q \in PageIds \ {p} : Resident(pool, q) /\ PinCount(pool, q) = 2
    /\ ~BpmUnpinPage(pool, p, TRUE).ok

\* No frame can be had: the free list is empty and every frame is pinned
OutOfFrames(P) ==
  /\ P.free_list = <<>>
  /\ \A f \in Frames : P.pages[f].pin_count > 0

\* C15: NewPage, and FetchPage of a page that is not resident, return a null
\* frame exactly when the free list is empty and every frame is pinned; NewPage
\* then gives INVALID_PAGE_ID, and the pool is unchanged.
C15_OutOfFrames ==
  /\ \A o \in BpmNewPage(pool) :
       /\ (o.frame = NoFrame) = OutOfFrames(pool)
       /\ o.frame = NoFrame => (o.page_id = INVALID_PAGE_ID /\ o.P = pool)
  /\ \A p \in Allocated :
       ~Resident(pool, p) =>
         \A o \in BpmFetchPage(pool, p) :
           /\ (o.frame = NoFrame) = OutOfFrames(pool)
           /\ o.frame = NoFrame => o.P = pool

\* The same for a replacer of k >= 2
C15_OutOfFrames_KAtLeast2 == pool.replacer.k >= 2 => C15_OutOfFrames

(***************************************************************************)
(* Claims about the page guards                                            *)
(***************************************************************************)
\* No FetchPageRead/FetchPageWrite is between its FetchPage and its latch, and
\* no Drop between its unpin and its unlatch
Quiescent == \A g \in GuardIds : guards[g].obj \notin {"wait", "dropping", "destroying"}

\* The active guards acquired for page p, a basic guard that was upgraded left
\* out: its pin is the new guard's
GuardsOn(p) ==
  {g \in GuardIds : Active(guards[g]) /\ ~guards[g].gave /\ guards[g].for_page = p}

\* The bytes of page p: in its frame if resident, else on disk
Content(P, p) == IF Resident(P, p) THEN P.pages[P.page_table[p]].data ELSE DiskRead(P, p)

\* C2: at every quiescent point the pin count of every page equals the number
\* of active guards on it plus the client's NewPage/FetchPage calls not yet
\* matched by UnpinPage.
C2_PinAccounting ==
  (crash = "no" /\ Quiescent) =>
    \A p \in PageIds : PinCount(pool, p) = Cardinality(GuardsOn(p)) + raw_pins[p]

\* C3: moving, dropping and destroying guards releases every pin and latch
\* exactly once: no move kills the process, and when every guard is destroyed
\* and every client pin returned, no pin and no latch is left.
C3_ReleasedExactlyOnce ==
  /\ crash \in {"no", "drop of an inert guard"}
  /\ (crash = "no" /\ (\A g \in GuardIds : guards[g].obj = "none")
                   /\ (\A p \in PageIds : raw_pins[p] = 0))
       => \A f \in Frames : /\ pool.pages[f].pin_count = 0
                            /\ latch[f] = [readers |-> 0, writer |-> FALSE]

\* The leak alone: with every guard destroyed and every client pin returned,
\* no latch is held
C3_NoLatchLeft ==
  (crash = "no" /\ (\A g \in GuardIds : guards[g].obj = "none")
                /\ (\A p \in PageIds : raw_pins[p] = 0))
    => \A f \in Frames : latch[f] = [readers |-> 0, writer |-> FALSE]

\* A step that upgrades leaves the basic guard inert and the pin count as it
\* was; an upgraded guard that is active has its page pinned; releasing it
\* takes exactly one pin
C4Step ==
  \A g \in GuardIds :
    /\ (guards[g].obj = "none" /\ guards'[g].obj = "live" /\ guards'[g].from # 0) =>
         /\ ~Active(guards'[guards'[g].from])
         /\ PinCount(pool', guards'[g].for_page) = PinCount(pool, guards'[g].for_page)
    /\ (Active(guards[g]) /\ guards[g].from # 0) =>
         /\ PinCount(pool, guards[g].for_page) >= 1
         /\ (crash' = "no" /\ ~Active(guards'[g])) =>
              PinCount(pool', guards[g].for_page) = PinCount(pool, guards[g].for_page) - 1

\* C4: UpgradeRead/UpgradeWrite transfers the pin into the new guard and leaves
\* the basic guard inert; the pin count is unchanged by the upgrade, stays >= 1
\* while the new guard is active and drops by one when it is released.
C4_UpgradeTransfersPin == [][C4Step]_vars

\* C7: while a write guard on a page is active no other read or write guard on
\* that page is active, and the read-modify-write sections run under write
\* guards lose no update: the page holds one character per completed section.
C7_WriteGuardsExclude ==
  /\ \A g1, g2 \in GuardIds :
       (g1 # g2 /\ Active(guards[g1]) /\ guards[g1].kind = "write"
                /\ Active(guards[g2]) /\ guards[g2].kind \in {"read", "write"})
         => guards[g1].for_page # guards[g2].for_page
  /\ \A p \in PageIds : Content(pool, p) = appends[p]

\* A step that move-assigns guard src to guard g: both exist before and after,
\* src held a page and holds none afterwards, and g changed
IsMoveAssign(g, src) ==
  /\ g # src
  /\ guards[g].obj = "live" /\ guards[src].obj = "live"
  /\ guards'[g].obj = "live" /\ guards'[src].obj = "live"
  /\ Active(guards[src]) /\ ~Active(guards'[src])
  /\ guards'[g] # guards[g]

\* Move assignment never fails on an inert destination; an active destination
\* gives back its latch and one pin; the destination then has the source's
\* page and dirty flag, and the latch of the source's page is as it was
C12Step ==
  /\ crash' # "move assignment to an inert guard"
  /\ \A g, src \in GuardIds :
       IsMoveAssign(g, src) =>
         /\ guards'[g].page = guards[src].page
         /\ guards'[g].is_dirty = guards[src].is_dirty
         /\ Active(guards[g]) =>
              /\ latch' = Unlatch(latch, guards[g])
              /\ pool'.pages[guards[g].page].pin_count =
                   pool.pages[guards[g].page].pin_count - 1
         /\ ~Active(guards[g]) => (latch' = latch /\ pool' = pool)

\* C12: g = std::move(h) releases what an active g holds (latch, then pin) as
\* destruction would, releases nothing and raises no error when g is inert, and
\* leaves g with h's page, pin, dirty flag and latch and h inert.
C12_MoveAssignment == [][C12Step]_vars

\* A step that calls Drop on a guard that is already inert ends the process by
\* a check of the code, not by a fault, and releases nothing
C13Step ==
  \A g \in GuardIds :
    (crash = "no" /\ crash' # "no" /\ guards[g].obj = "live" /\ ~Active(guards[g])
       /\ crash' = "drop of an inert guard")
      => /\ crash' \notin NullDereference
         /\ pool' = pool /\ latch' = latch

\* C13: a guard is inert after its first Drop, and a second Drop is a detected
\* programmer error (assertion, abort) that unpins nothing and unlatches
\* nothing a second time.
C13_DoubleDropDetected == [][C13Step]_vars

\* The guard holds the latch of its frame
HoldsLatch(g) ==
  /\ guards[g].kind \in {"read", "write"}
  /\ guards[g].obj \in {"live", "dropping", "destroying"}
  /\ guards[g].page # NoFrame

\* C28: a read or write guard that is released drops the frame latch first and
\* only then gives back its pin: as long as a guard holds its latch the page is
\* pinned, in its frame, and not evictable.
C28_LatchDroppedBeforeUnpin ==
  \A g \in GuardIds :
    HoldsLatch(g) =>
      /\ pool.pages[guards[g].page].pin_count >= 1
      /\ pool.pages[guards[g].page].page_id = guards[g].for_page
      /\ guards[g].page \notin EvictableFrames(pool.replacer)

\* A step that releases a write guard whose mutable data was accessed leaves
\* the guard's page in its frame with the dirty flag set
C29Step ==
  \A g \in GuardIds :
    (/\ Active(guards[g]) /\ guards[g].kind = "write" /\ guards[g].is_dirty
     /\ guards'[g].obj \in {"dropping", "destroying"} /\ crash' = "no") =>
      /\ pool'.pages[guards[g].page].page_id = guards[g].for_page
      /\ pool'.pages[guards[g].page].is_dirty

\* C29: if a guard's mutable data was accessed (AsMut, GetDataMut), then after
\* the guard is released the page's dirty flag in the pool is true; also for a
\* write guard obtained by UpgradeWrite from NewPageGuarded or FetchPageBasic.
C29_DirtyPropagation == [][C29Step]_vars

(***************************************************************************)
(* Claims about the replacer                                               *)
(***************************************************************************)
KDist(r, f) == GetKDistance(r.node_store[f], r.k, r.current_timestamp)

Early(r, f) == GetEarlyTimestamp(r.node_store[f])

\* f is the LRU-K victim of r: evictable, of maximal backward k-distance, and of
\* the smallest earliest timestamp among the frames of that distance
IsVictim(r, f) ==
  /\ f \in EvictableFrames(r)
  /\ \A g \in EvictableFrames(r) :
       \/ KDist(r, f) > KDist(r, g)
       \/ KDist(r, f) = KDist(r, g) /\ Early(r, f) <= Early(r, g)

\* C6: Evict returns, among the evictable tracked frames, the one with the largest
\* backward k-distance, ties broken by the smallest earliest timestamp; it
\* returns a frame whenever one is evictable.
C6_EvictChoosesVictim ==
  [][rep_out'.op = "Evict" /\ EvictableFrames(replacer) # {}
       => rep_out'.ok /\ IsVictim(replacer, rep_out'.res)]_vars

\* The same statement for k >= 2 only, where no k-distance is 0.
C6_EvictChoosesVictim_KAtLeast2 ==
  [][rep_out'.op = "Evict" /\ EvictableFrames(replacer) # {} /\ replacer.k >= 2
       => rep_out'.ok /\ IsVictim(replacer, rep_out'.res)]_vars

\* C30: for every k >= 1 and every reachable replacer state with Size() > 0,
\* Evict returns true with a tracked, evictable frame id, whatever the iteration
\* order and whatever the stack held where early_timestamp lives.
C30_EvictSucceeds ==
  ReplacerSize(replacer) > 0 =>
    \A o \in EvictOutcomes(replacer) : o.ok /\ o.frame_id \in EvictableFrames(replacer)

(***************************************************************************)
(* The hash index driven by arbitrary Insert and Remove calls              *)
(***************************************************************************)
HInit ==
  /\ \E directory_max_depth \in 1 .. DirMaxDepth, bucket_max_size \in 2 .. MaxBucketSize :
       ht = NewHashTable(0, directory_max_depth, bucket_max_size)
  /\ ht_expect = <<>>
  /\ ht_trace = <<>>
  /\ threads = <<>>
  /\ replacer = NewReplacer(0, 1)
  /\ rep_out = Out("none", NoFrame, FALSE, TRUE, NoFrame)
  /\ PoolIdle
  /\ SchedIdle

HInsert(key) ==
  LET r == Insert(ht, key, ValueOf(key)) IN
  /\ r.T.next_page_id <= MaxHashPages
  /\ ht' = r.T
  /\ ht_expect' = IF r.ok /\ key \notin DOMAIN ht_expect
                  THEN ht_expect @@ (key :> ValueOf(key))
                  ELSE ht_expect
  /\ UNCHANGED <<ht_trace, threads, rvars, pvars, svars>>

HRemove(key) ==
  /\ ht' = Remove(ht, key).T
  /\ ht_expect' = Restrict(ht_expect, DOMAIN ht_expect \ {key})
  /\ UNCHANGED <<ht_trace, threads, rvars, pvars, svars>>

HNext ==
  \/ \E key \in Keys : HInsert(key)
  \/ \E key \in Keys : HRemove(key)

SpecHash == HInit /\ [][HNext]_vars

\* C16: after any sequence of RecordAccess, SetEvictable, Remove and Evict,
\* Size() is the number of tracked frames whose evictable flag is true.
C16_SizeCountsEvictable ==
  ReplacerSize(replacer) = Cardinality(EvictableFrames(replacer))

\* Evict has just taken one of two evictable frames; a third, tracked frame is
\* not evictable
C16_Witness ==
  /\ rep_out.op = "Evict" /\ rep_out.ok
  /\ ReplacerSize(replacer) = 1
  /\ Cardinality(Tracked(replacer)) = 2
  /\ rep_out.res \notin Tracked(replacer)

\* C23: when no tracked frame is evictable Evict returns false and leaves the
\* replacer as it was; when it succeeds the frame returned was tracked and
\* evictable, its node is gone, Size is one less, and every other node has its
\* history and evictable flag as before.
C23_EvictOutcome ==
  \A o \in EvictOutcomes(replacer) :
    /\ EvictableFrames(replacer) = {} => (~o.ok /\ o.r = replacer)
    /\ ~o.ok => o.r = replacer
    /\ o.ok =>
         /\ o.frame_id \in EvictableFrames(replacer)
         /\ Tracked(o.r) = Tracked(replacer) \ {o.frame_id}
         /\ ReplacerSize(o.r) = ReplacerSize(replacer) - 1
         /\ \A f \in Tracked(o.r) : o.r.node_store[f] = replacer.node_store[f]
         /\ o.r.current_timestamp = replacer.current_timestamp
         /\ o.r.k = replacer.k /\ o.r.replacer_size = replacer.replacer_size

\* Evict has just taken a frame and left two nodes, one of them evictable; a
\* second Evict can succeed, and it fails once nothing is evictable
C23_Witness ==
  /\ rep_out.op = "Evict" /\ rep_out.ok
  /\ Cardinality(Tracked(replacer)) = 2
  /\ ReplacerSize(replacer) = 1
  /\ \E o \in EvictOutcomes(replacer) : o.ok /\ EvictableFrames(o.r) = {}

\* C24: SetEvictable fails by assertion on a frame that is not tracked; on a
\* tracked frame it sets the flag, Size goes up by one on false -> true and down
\* by one on true -> false, nothing else changes, and a call with the flag the
\* frame already has, or a second call with the same flag, changes nothing.
C24_SetEvictableContract ==
  /\ rep_out.op = "SetEvictable" => (rep_out.ok = (rep_out.frame \in Tracked(replacer)))
  /\ (rep_out.op = "SetEvictable" /\ rep_out.ok) =>
       replacer.node_store[rep_out.frame].is_evictable = rep_out.flag
  /\ \A f \in Tracked(replacer), b \in BOOLEAN :
       LET old == replacer.node_store[f].is_evictable
           r1 == ReplacerSetEvictable(replacer, f, b)
       IN /\ r1.node_store[f].is_evictable = b
          /\ r1.node_store[f].history = replacer.node_store[f].history
          /\ ReplacerSize(r1) = ReplacerSize(replacer)
                                 + (IF ~old /\ b THEN 1 ELSE 0)
                                 - (IF old /\ ~b THEN 1 ELSE 0)
          /\ Tracked(r1) = Tracked(replacer)
          /\ \A g \in Tracked(replacer) \ {f} : r1.node_store[g] = replacer.node_store[g]
          /\ r1.current_timestamp = replacer.current_timestamp
          /\ old = b => r1 = replacer
          /\ ReplacerSetEvictable(r1, f, b) = r1

\* SetEvictable(frame, false) has just been served on a tracked frame while
\* another frame is evictable, and an untracked frame exists
C24_Witness ==
  /\ rep_out.op = "SetEvictable" /\ rep_out.ok /\ ~rep_out.flag
  /\ ReplacerSize(replacer) = 1
  /\ Tracked(replacer) # RFrames
  /\ replacer.current_timestamp >= 3

\* SetEvictable has failed on an untracked frame
C24_WitnessAssertion ==
  /\ rep_out.op = "SetEvictable" /\ ~rep_out.ok
  /\ rep_out.frame \notin Tracked(replacer)

\* What Remove does to the replacer of the current state, call by call
C25_RemoveEffect ==
  /\ rep_out.op = "Remove" =>
       IF rep_out.ok THEN rep_out.frame \notin Tracked(replacer)
       ELSE rep_out.frame \in Tracked(replacer) \ EvictableFrames(replacer)
  /\ \A f \in RFrames \ Tracked(replacer) : ReplacerRemove(replacer, f) = replacer
  /\ \A f \in EvictableFrames(replacer) :
       LET r1 == ReplacerRemove(replacer, f)
           r2 == ReplacerRecordAccess(r1, f)
       IN /\ Tracked(r1) = Tracked(replacer) \ {f}
          /\ ReplacerSize(r1) = ReplacerSize(replacer) - 1
          /\ \A g \in Tracked(r1) : r1.node_store[g] = replacer.node_store[g]
          /\ r1.current_timestamp = replacer.current_timestamp
          /\ r2.node_store[f] = NewNode(r1.current_timestamp + 1)
          /\ ReplacerSize(r2) = ReplacerSize(r1)

\* A Remove that fails leaves the replacer as it was
C25Step ==
  (rep_out'.op = "Remove" /\ ~rep_out'.ok /\ rep_out' # rep_out) => replacer' = replacer

\* C25: Remove changes nothing for a frame that is not tracked; it is a fatal
\* assertion that modifies nothing for a tracked frame that is not evictable;
\* otherwise it deletes the node with its whole history and Size goes down by
\* one, so that a later RecordAccess of the frame starts a fresh history.
C25_RemoveContract == []C25_RemoveEffect /\ [][C25Step]_vars

\* Remove has just deleted the node of a frame that had been accessed; other
\* frames are tracked, one of them evictable and one not
C25_Witness ==
  /\ rep_out.op = "Remove" /\ rep_out.ok
  /\ rep_out.frame \notin Tracked(replacer)
  /\ Cardinality(Tracked(replacer)) = 2
  /\ ReplacerSize(replacer) = 1
  /\ replacer.current_timestamp = 3

\* Remove has failed on a tracked frame that is not evictable
C25_WitnessAssertion ==
  /\ rep_out.op = "Remove" /\ ~rep_out.ok
  /\ rep_out.frame \in Tracked(replacer)

(***************************************************************************)
(* Hash index claims                                                       *)
(***************************************************************************)
TheDirectory == ht.dirs[ht.header.directory_page_ids[0]]
Slots == 0 .. (DirectorySize(TheDirectory) - 1)
Low(x, d) == x % (2 ^ d)
StoredKeys(b) == {KeyAt(b, i) : i \in 0 .. (b.size - 1)}

\* C5: a key inserted (Insert returned true) and not removed since is found
\* by GetValue with exactly its value; any other key is not found.
C5_LookupCorrect ==
  \A key \in Keys :
    LET r == GetValue(ht, key) IN
    IF key \in DOMAIN ht_expect
    THEN r.found /\ r.result = <<ht_expect[key]>>
    ELSE ~r.found

\* C8: every slot's local depth is at most the global depth, and the slots
\* that agree with it on the low local-depth bits share its bucket page id
\* and its local depth.
C8_DirectoryInvariant ==
  LET dir == TheDirectory IN
  \A i \in Slots :
    /\ dir.local_depths[i] <= dir.global_depth
    /\ \A j \in Slots :
         Low(j, dir.local_depths[i]) = Low(i, dir.local_depths[i])
           => /\ dir.bucket_page_ids[j] = dir.bucket_page_ids[i]
              /\ dir.local_depths[j] = dir.local_depths[i]

\* a directory grown to its full size by splits, where some slots still
\* share a bucket and others have one of their own
C8_Witness ==
  /\ ht # <<>>
  /\ TheDirectory.global_depth = DirMaxDepth
  /\ \E i \in Slots : TheDirectory.local_depths[i] < TheDirectory.global_depth
  /\ \E i \in Slots : TheDirectory.local_depths[i] = TheDirectory.global_depth
  /\ ht_expect # <<>>

\* C9: a key stored in the bucket of slot i agrees with i on the low
\* local-depth bits, and no bucket page holds a key that the directory
\* maps elsewhere.
C9_BucketInvariant ==
  LET dir == TheDirectory IN
  /\ \A i \in Slots :
       \A key \in StoredKeys(ht.buckets[dir.bucket_page_ids[i]]) :
         Low(Hash(key), dir.local_depths[i]) = Low(i, dir.local_depths[i])
  /\ \A page_id \in DOMAIN ht.buckets :
       \A key \in StoredKeys(ht.buckets[page_id]) :
         Walk(ht, key).bucket_page_id = page_id

(***************************************************************************)
(* The disk scheduler driven by producers, its worker and its destructor   *)
(***************************************************************************)
SInit ==
  /\ sched = NewScheduler
  /\ replacer = NewReplacer(0, 1)
  /\ rep_out = Out("none", NoFrame, FALSE, TRUE, NoFrame)
  /\ PoolIdle
  /\ HashIdle

\* A producer calls Schedule while the scheduler exists
SSchedule(is_write, page_id) ==
  /\ sched.dtor = "none"
  /\ Len(sched.scheduled) < MaxRequests
  /\ sched' = Schedule(sched, DiskRequest(Len(sched.scheduled) + 1, is_write, page_id))
  /\ UNCHANGED <<rvars, pvars, hvars>>

\* The owner destroys the scheduler: the sentinel is put, then the join waits
SDestroy ==
  /\ sched.dtor = "none"
  /\ sched' = DestructorPut(sched)
  /\ UNCHANGED <<rvars, pvars, hvars>>

\* background_thread_->join() returns once the worker has returned
SJoin ==
  /\ sched.dtor = "join" /\ sched.worker = "returned"
  /\ sched' = [sched EXCEPT !.dtor = "done"]
  /\ UNCHANGED <<rvars, pvars, hvars>>

SWorkerGet ==
  /\ sched.worker = "get" /\ sched.request_queue # <<>>
  /\ sched' = WorkerGet(sched)
  /\ UNCHANGED <<rvars, pvars, hvars>>

SWorkerIo ==
  /\ sched.worker = "io"
  /\ sched' = WorkerIo(sched)
  /\ UNCHANGED <<rvars, pvars, hvars>>

SWorkerSignal ==
  /\ sched.worker = "signal"
  /\ sched' = WorkerSignal(sched)
  /\ UNCHANGED <<rvars, pvars, hvars>>

SWorker == SWorkerGet \/ SWorkerIo \/ SWorkerSignal

SNext ==
  \/ \E is_write \in BOOLEAN, page_id \in SchedPageIds : SSchedule(is_write, page_id)
  \/ SDestroy
  \/ SJoin
  \/ SWorkerGet
  \/ SWorkerIo
  \/ SWorkerSignal

SpecSched == SInit /\ [][SNext]_vars

\* The worker is a thread of its own and the join returns when it has ended
FairSpecSched == SpecSched /\ WF_vars(SWorker) /\ WF_vars(SJoin)

\* The place of an event in the log, 0 when it has not happened
LogPos(kind, id) ==
  LET at == {i \in 1 .. Len(sched.log) : sched.log[i].kind = kind /\ sched.log[i].id = id}
  IN IF at = {} THEN 0 ELSE CHOOSE i \in at : \A j \in at : i <= j

\* How many times an event is in the log
LogCount(kind, id) ==
  Cardinality({i \in 1 .. Len(sched.log) :
                 sched.log[i].kind = kind /\ sched.log[i].id = id})

\* C17: requests are executed in the order Schedule enqueued them: if a was
\* enqueued before b, the disk I/O of a and its completion signal come before
\* the disk I/O of b.
C17_FifoOrder ==
  \A a, b \in 1 .. Len(sched.scheduled) :
    (a < b /\ LogPos("io", b) # 0) =>
      /\ LogPos("io", a) # 0 /\ LogPos("signal", a) # 0
      /\ LogPos("io", a) < LogPos("signal", a)
      /\ LogPos("signal", a) < LogPos("io", b)

\* Of three requests the first is signalled, the second has had its I/O and
\* the third waits in the queue
C17_Witness ==
  /\ Len(sched.scheduled) = 3
  /\ Len(sched.request_queue) = 1
  /\ sched.worker = "signal"
  /\ LogPos("signal", 1) # 0 /\ LogPos("io", 2) # 0

\* What a read of the request of place id must find: the bytes of the last
\* write to its page enqueued before it, zeroes when there is none
ExpectedRead(id) ==
  LET r == sched.scheduled[id]
      before == {j \in 1 .. (id - 1) : sched.scheduled[j].is_write_
                                         /\ sched.scheduled[j].page_id_ = r.page_id_}
  IN IF before = {} THEN 0
     ELSE sched.scheduled[CHOOSE j \in before : \A i \in before : i <= j].data_

\* A request is signalled at most once, with true, after its one disk I/O, and
\* that I/O is the request's: its kind, its page, its bytes
C18_Safety ==
  \A id \in 1 .. Len(sched.scheduled) :
    LET r == sched.scheduled[id] IN
    /\ sched.callback[id] = LogCount("signal", id)
    /\ sched.callback[id] <= 1
    /\ LogCount("io", id) <= 1
    /\ LogPos("signal", id) # 0 =>
         /\ sched.log[LogPos("signal", id)].value = TRUE
         /\ LogPos("io", id) # 0 /\ LogPos("io", id) < LogPos("signal", id)
    /\ LogPos("io", id) # 0 =>
         LET e == sched.log[LogPos("io", id)] IN
         /\ e.is_write = r.is_write_ /\ e.page_id = r.page_id_
         /\ e.data = IF r.is_write_ THEN r.data_ ELSE ExpectedRead(id)

\* The request of place id has been passed to Schedule / has been signalled
Scheduled(id) == Len(sched.scheduled) >= id
Completed(id) == Len(sched.scheduled) >= id /\ sched.callback[id] = 1

\* C18: every request passed to Schedule before the scheduler is destroyed is
\* eventually taken from the queue by the worker, its read or write is done on
\* the disk manager for its page and buffer, and its completion signal is set
\* exactly once, to true, after that I/O; no request is dropped.
C18_EveryRequestCompleted ==
  /\ []C18_Safety
  /\ \A id \in 1 .. MaxRequests : Scheduled(id) ~> Completed(id)
  /\ \A id \in 1 .. MaxRequests : [](Completed(id) => []Completed(id))

\* A read enqueued behind a write of the same page has been signalled and
\* found the write's bytes
C18_Witness ==
  \E id \in 2 .. Len(sched.scheduled) :
    /\ ~sched.scheduled[id].is_write_
    /\ sched.callback[id] = 1
    /\ sched.log[LogPos("io", id)].data # 0
    /\ sched.dtor = "none"

\* The worker returns only after the destructor has put the sentinel, and then
\* every request has been served and nothing is left in the queue; the
\* destructor ends only after the worker has returned
C19_Safety ==
  /\ sched.worker = "returned" =>
       /\ sched.dtor # "none"
       /\ sched.request_queue = <<>>
       /\ \A id \in 1 .. Len(sched.scheduled) : sched.callback[id] = 1
  /\ sched.dtor = "done" => sched.worker = "returned"

\* C19: the worker does not return while the scheduler exists; destruction puts
\* the sentinel and joins; the worker serves every request enqueued before the
\* sentinel, returns on reading it, and the destructor completes.
C19_ShutdownTerminates ==
  /\ []C19_Safety
  /\ (sched.dtor = "join") ~> (sched.dtor = "done")

\* A scheduler destroyed with requests still queued has ended
C19_Witness ==
  /\ sched.dtor = "done"
  /\ Len(sched.scheduled) >= 2
  /\ LogPos("io", 1) > 0
  /\ \A id \in 1 .. Len(sched.scheduled) : sched.callback[id] = 1

\* The owning bucket of key is full, its local depth is the global depth and
\* the directory has the size directory_max_depth allows
GrowthBlocked(T, key) ==
  LET w == Walk(T, key)
      dir == T.dirs[w.directory_page_id]
  IN /\ IsFull(T.buckets[w.bucket_page_id])
     /\ dir.local_depths[w.bucket_index] = dir.global_depth
     /\ DirectorySize(dir) = DirectoryMaxSize(dir)

\* C20: Insert returns false exactly when the owning bucket is full, its local
\* depth equals the global depth and the directory cannot grow; in every other
\* case it returns true.
C20_InsertFalseIffBlocked ==
  \A key \in Keys :
    Insert(ht, key, ValueOf(key)).ok = ~GrowthBlocked(ht, key)

\* The directory has grown to its largest size; one key is refused and another
\* finds a bucket with room
C20_Witness ==
  /\ TheDirectory.global_depth = ht.directory_max_depth
  /\ \E key \in Keys : GrowthBlocked(ht, key) /\ ~Insert(ht, key, ValueOf(key)).ok
  /\ \E key \in Keys :
       /\ ~IsFull(ht.buckets[Walk(ht, key).bucket_page_id])
       /\ Insert(ht, key, ValueOf(key)).ok

(***************************************************************************)
(* The hash index of the scenario: bucket_max_size 2, directory_max_depth  *)
(* 2, header_max_depth 0, hash(k) = k, and Insert(k, k) calls in any order *)
(***************************************************************************)
MaxScenarioKey == 4
MaxScenarioOps == 4

ScenarioKeys == 1 .. MaxScenarioKey

TInit ==
  /\ ht = NewHashTable(0, 2, 2)
  /\ ht_expect = <<>>
  /\ ht_trace = <<>>
  /\ threads = <<>>
  /\ replacer = NewReplacer(0, 1)
  /\ rep_out = Out("none", NoFrame, FALSE, TRUE, NoFrame)
  /\ PoolIdle
  /\ SchedIdle

\* Insert(key, key); the trace keeps the key, the result, whether a bucket page
\* was created (a split) and the global depth after the call
TInsert(key) ==
  LET r == Insert(ht, key, key) IN
  /\ Len(ht_trace) < MaxScenarioOps
  /\ ht' = r.T
  /\ ht_expect' = IF r.ok /\ key \notin DOMAIN ht_expect
                  THEN ht_expect @@ (key :> key)
                  ELSE ht_expect
  /\ ht_trace' = Append(ht_trace,
                    [key |-> key, ok |-> r.ok,
                     split |-> r.T.next_page_id # ht.next_page_id,
                     global_depth |-> r.T.dirs[Walk(r.T, key).directory_page_id].global_depth])
  /\ UNCHANGED <<threads, rvars, pvars, svars>>

TNext == \E key \in ScenarioKeys : TInsert(key)

SpecHashScenario == TInit /\ [][TNext]_vars

\* The keys inserted so far, in order
TraceKeys == [i \in 1 .. Len(ht_trace) |-> ht_trace[i].key]

\* The keys of the bucket that the directory slot of key refers to
BucketKeysOf(key) == StoredKeys(ht.buckets[Walk(ht, key).bucket_page_id])

\* The directory of the scenario's table
ScenarioDirectory == ht.dirs[ht.header.directory_page_ids[0]]

\* The scenario up to its third Insert: 1 and 2 share the initial bucket; the
\* Insert of 3 splits it and the global depth becomes 1
ScenarioFirstThree ==
  /\ TraceKeys \in {<<1>>, <<1, 2>>} =>
       /\ \A i \in 1 .. Len(ht_trace) :
            ht_trace[i].ok /\ ~ht_trace[i].split /\ ht_trace[i].global_depth = 0
       /\ BucketKeysOf(1) = {TraceKeys[i] : i \in 1 .. Len(ht_trace)}
       /\ Cardinality(DOMAIN ht.buckets) = 1
  /\ TraceKeys = <<1, 2, 3>> =>
       /\ ht_trace[3].ok /\ ht_trace[3].split /\ ht_trace[3].global_depth = 1
       /\ ScenarioDirectory.global_depth = 1
       /\ BucketKeysOf(2) = {2} /\ BucketKeysOf(3) = {1, 3}

\* C21 as stated: with bucket_max_size 2, directory_max_depth 2, header_max_depth
\* 0 and hash(k) = k, the Inserts of 1, 2, 3, 4 put 1 and 2 in the initial
\* bucket, the third splits and makes the global depth 1, the fourth splits
\* again and makes the global depth 2, and GetValue(3) returns [3].
C21_Scenario ==
  /\ ScenarioFirstThree
  /\ TraceKeys = <<1, 2, 3, 4>> =>
       /\ ht_trace[4].ok /\ ht_trace[4].split /\ ht_trace[4].global_depth = 2
       /\ ScenarioDirectory.global_depth = 2
       /\ GetValue(ht, 3) = [found |-> TRUE, result |-> <<3>>]

\* C21, amended: the same, but the fourth Insert finds room in the bucket of
\* the even keys, splits nothing and leaves the global depth at 1.
C21_ScenarioAmended ==
  /\ ScenarioFirstThree
  /\ TraceKeys = <<1, 2, 3, 4>> =>
       /\ ht_trace[4].ok /\ ~ht_trace[4].split /\ ht_trace[4].global_depth = 1
       /\ ScenarioDirectory.global_depth = 1
       /\ BucketKeysOf(4) = {2, 4} /\ BucketKeysOf(3) = {1, 3}
       /\ GetValue(ht, 3) = [found |-> TRUE, result |-> <<3>>]
       /\ \A key \in 1 .. 4 : GetValue(ht, key) = [found |-> TRUE, result |-> <<key>>]

\* The four Inserts of the scenario have been made
C21_Witness ==
  /\ TraceKeys = <<1, 2, 3, 4>>
  /\ GetValue(ht, 3).found

\* C22: Remove(k) returns true exactly when k is stored in its owning bucket;
\* afterwards GetValue(k) finds nothing, the lookup of every other key is as
\* before, and the directory (global depth, local depths, bucket page ids) and
\* the header are untouched.
C22_RemoveContract ==
  \A key \in Keys :
    LET r == Remove(ht, key)
        w == Walk(ht, key)
    IN /\ r.ok = (key \in StoredKeys(ht.buckets[w.bucket_page_id]))
       /\ ~GetValue(r.T, key).found
       /\ \A other \in Keys \ {key} : GetValue(r.T, other) = GetValue(ht, other)
       /\ r.T.dirs = ht.dirs
       /\ r.T.header = ht.header
       /\ DOMAIN r.T.buckets = DOMAIN ht.buckets

\* After splits, a key that was inserted has been removed from a bucket that is
\* now empty and still in the directory; another key is stored
C22_Witness ==
  /\ TheDirectory.global_depth >= 1
  /\ \E key \in Keys \ DOMAIN ht_expect :
       LET b == ht.buckets[Walk(ht, key).bucket_page_id] IN
       /\ b.size = 0 /\ b.array[0] = <<key, ValueOf(key)>> /\ key # 0
       /\ ~Remove(ht, key).ok
  /\ \E key \in DOMAIN ht_expect : Remove(ht, key).ok

\* Insert of key finds its bucket full with a local depth below the global depth
SplitWithoutGrowth(T, key) ==
  LET w == Walk(T, key)
      dir == T.dirs[w.directory_page_id]
  IN /\ IsFull(T.buckets[w.bucket_page_id])
     /\ dir.global_depth > dir.local_depths[w.bucket_index]

\* C26: when Insert finds the owning bucket full and global_depth greater than
\* the local depth of bucket_index, it increments that local depth, installs
\* the new bucket page at split_image_index = bucket_index XOR
\* (1 << (local depth - 1)) and leaves global_depth alone; the new bucket page
\* is referenced by the directory.
C26_SplitWithoutGrowth ==
  \A key \in Keys :
    SplitWithoutGrowth(ht, key) =>
      LET w == Walk(ht, key)
          dir == ht.dirs[w.directory_page_id]
          r == Insert(ht, key, ValueOf(key))
          after == r.T.dirs[w.directory_page_id]
          split_image_index == GetSplitImageIndex(after, w.bucket_index)
      IN /\ r.ok
         /\ after.global_depth = dir.global_depth
         /\ after.local_depths[w.bucket_index] = dir.local_depths[w.bucket_index] + 1
         /\ after.bucket_page_ids[split_image_index] = ht.next_page_id
         /\ \E i \in 0 .. (DirectorySize(after) - 1) :
              after.bucket_page_ids[i] = ht.next_page_id

\* The (key, value) pairs a bucket page holds
Entries(b) == {b.array[i] : i \in 0 .. (b.size - 1)}

\* The directory as Insert of key has updated it when the rehash loop starts
RehashDirectory(T, key) ==
  LET w == Walk(T, key)
  IN InsertUpdateDirectory(T.dirs[w.directory_page_id], w.bucket_index, T.next_page_id)

\* The two buckets after the rehash loop of Insert of key
RehashOf(T, key) ==
  LET w == Walk(T, key)
      bucket == T.buckets[w.bucket_page_id]
  IN Rehash(RehashDirectory(T, key).dir, w.bucket_index, bucket,
            BucketInit(T.bucket_max_size), 0, bucket.size)

\* C27: after the rehash step of Insert every entry of the old bucket whose
\* recomputed bucket index differs from bucket_index is in the split-image
\* bucket and no longer in the old one, every other entry is still in the old
\* bucket, and the pairs of the two buckets together are the old content.
C27_RehashLossless ==
  \A key \in Keys :
    LET w == Walk(ht, key)
        bucket == ht.buckets[w.bucket_page_id]
    IN (IsFull(bucket) /\ RehashDirectory(ht, key).ok) =>
         LET dir == RehashDirectory(ht, key).dir
             m == RehashOf(ht, key)
         IN /\ \A e \in Entries(bucket) :
                 IF HashToBucketIndex(dir, Hash(e[1])) # w.bucket_index
                   THEN e \in Entries(m.split_image) /\ e \notin Entries(m.bucket)
                   ELSE e \in Entries(m.bucket) /\ e \notin Entries(m.split_image)
            /\ Entries(m.bucket) \cup Entries(m.split_image) = Entries(bucket)
            /\ m.bucket.size + m.split_image.size = bucket.size


(***************************************************************************)
(* The hash index with a header of any depth.  The constructor fills      *)
(* header slot 0 only; GetValue, Insert and Remove pass whatever the      *)
(* selected slot holds to FetchPageWrite.                                  *)
(***************************************************************************)
\* A hash whose top MaxHeaderDepth bits are 0...01, and small hashes
HighKey == 2 ^ (32 - MaxHeaderDepth)
HeaderKeys == {0, 1, HighKey, HighKey + 1}

\* directory_page_id of GetValue, Insert and Remove
DirectoryPageIdOf(T, key) ==
  T.header.directory_page_ids[HashToDirectoryIndex(T.header, Hash(key))]

\* The id read from the header names a directory page that was initialised
ReachesDirectory(T, key) == DirectoryPageIdOf(T, key) \in DOMAIN T.dirs

DInit ==
  /\ \E header_max_depth \in 0 .. MaxHeaderDepth,
        directory_max_depth \in 1 .. DirMaxDepth,
        bucket_max_size \in 2 .. MaxBucketSize :
       ht = NewHashTable(header_max_depth, directory_max_depth, bucket_max_size)
  /\ ht_expect = <<>>
  /\ ht_trace = <<>>
  /\ threads = <<>>
  /\ replacer = NewReplacer(0, 1)
  /\ rep_out = Out("none", NoFrame, FALSE, TRUE, NoFrame)
  /\ PoolIdle
  /\ SchedIdle

\* FetchPageWrite(directory_page_id) of a page that was never created, and
\* AsMut on what it returns
FetchOfMissingDirectory ==
  /\ crash' = "fetch of a directory page that does not exist"
  /\ UNCHANGED <<hvars, pool, guards, latch, raw_pins, appends, unsaved, rvars, svars>>

DInsert(key) ==
  /\ crash = "no"
  /\ IF ReachesDirectory(ht, key)
       THEN LET r == Insert(ht, key, ValueOf(key)) IN
            /\ r.T.next_page_id <= MaxHashPages
            /\ ht' = r.T
            /\ ht_expect' = IF r.ok /\ key \notin DOMAIN ht_expect
                            THEN ht_expect @@ (key :> ValueOf(key))
                            ELSE ht_expect
            /\ UNCHANGED <<ht_trace, threads, rvars, pvars, svars>>
       ELSE FetchOfMissingDirectory

DRemove(key) ==
  /\ crash = "no"
  /\ IF ReachesDirectory(ht, key)
       THEN /\ ht' = Remove(ht, key).T
            /\ ht_expect' = Restrict(ht_expect, DOMAIN ht_expect \ {key})
            /\ UNCHANGED <<ht_trace, threads, rvars, pvars, svars>>
       ELSE FetchOfMissingDirectory

DGetValue(key) ==
  /\ crash = "no"
  /\ IF ReachesDirectory(ht, key)
       THEN /\ ht_trace' = <<[key |-> key, got |-> GetValue(ht, key)]>>
            /\ UNCHANGED <<ht, ht_expect, threads, rvars, pvars, svars>>
       ELSE FetchOfMissingDirectory

DNext ==
  \/ \E key \in HeaderKeys : DInsert(key)
  \/ \E key \in HeaderKeys : DRemove(key)
  \/ \E key \in HeaderKeys : DGetValue(key)

SpecHashHeader == DInit /\ [][DNext]_vars

\* C31: for every header_max_depth and every key, the directory page id that
\* GetValue, Insert and Remove read from the header slot of the key's hash is
\* the id of an initialised directory page, and no operation fetches a page
\* that does not exist.
C31_EveryKeyReachesDirectory ==
  /\ \A key \in HeaderKeys : ReachesDirectory(ht, key)
  /\ crash = "no"

\* The same statement for the keys whose header slot is slot 0
C31_SlotZeroReachesDirectory ==
  \A key \in HeaderKeys :
    HashToDirectoryIndex(ht.header, Hash(key)) = 0 => ReachesDirectory(ht, key)

\* C33: when Insert returns false the header, the directory's global depth,
\* every local depth and every bucket page id are as before the call, every
\* bucket page of the index has the contents it had, and GetValue of every key
\* returns what it returned before.
C33_FailedInsertChangesNothing ==
  \A key \in Keys :
    LET r == Insert(ht, key, ValueOf(key)) IN
    ~r.ok =>
      /\ r.T.header = ht.header
      /\ r.T.dirs = ht.dirs
      /\ \A page_id \in DOMAIN ht.buckets : r.T.buckets[page_id] = ht.buckets[page_id]
      /\ \A k \in Keys : GetValue(r.T, k) = GetValue(ht, k)

\* An Insert is refused in a table that holds keys in two buckets, and a key
\* stored in the table is found after the refused call
C33_Witness ==
  /\ TheDirectory.global_depth = ht.directory_max_depth
  /\ \E key \in Keys :
       /\ ~Insert(ht, key, ValueOf(key)).ok
       /\ \E k \in Keys : GetValue(Insert(ht, key, ValueOf(key)).T, k).found
  /\ \E k1, k2 \in Keys :
       /\ GetValue(ht, k1).found /\ GetValue(ht, k2).found
       /\ Walk(ht, k1).bucket_page_id # Walk(ht, k2).bucket_page_id

(***************************************************************************)
(* The hash index called by several threads.  A call pins the header,     *)
(* pins and write-latches the directory, pins and write-latches the       *)
(* bucket, Insert on a full bucket creates and write-latches the split    *)
(* image, and the guards are destroyed in the reverse order of their      *)
(* declaration when the call returns.  The pool has a frame for every     *)
(* page, so latch and raw_pins are indexed by page id.  Two threads make   *)
(* one call each on a table that is empty or was filled before.            *)
(***************************************************************************)
ThreadIds == {1, 2}
IndexKeys == 0 .. (MaxIndexKey - 1)
IndexPages == 0 .. (2 + MaxKey + Cardinality(ThreadIds))
IndexOps == {"GetValue", "Insert", "Remove"}

\* A thread outside a call: pc is "idle" before its call, "returned" after it
OutsideCall(pc) ==
  [pc |-> pc, op |-> "none", key |-> 0,
   directory_page_id |-> INVALID_PAGE_ID,
   bucket_page_id |-> INVALID_PAGE_ID,
   split_image_page_id |-> INVALID_PAGE_ID,
   unpinned |-> FALSE,
   held |-> <<>>]

InCall(t) == threads[t].pc \notin {"idle", "returned"}

\* FetchPage: one more pin on the page
PinPage(pins, page_id) == [pins EXCEPT ![page_id] = @ + 1]

\* Drop of a guard: UnpinPage unless the pin count is 0
UnpinPageIfPinned(pins, page_id) ==
  IF pins[page_id] # 0 THEN [pins EXCEPT ![page_id] = @ - 1] ELSE pins

\* The table after Insert of the keys 0 .. n - 1, one call after the other
RECURSIVE Filled(_, _)
Filled(T, n) ==
  IF n = 0 THEN T ELSE Insert(Filled(T, n - 1), n - 1, ValueOf(n - 1)).T

\* The threads start on a table that one thread has filled
IxInit ==
  /\ \E directory_max_depth \in 1 .. DirMaxDepth, bucket_max_size \in 2 .. MaxBucketSize,
        n \in {0, MaxKey} :
       ht = Filled(NewHashTable(0, directory_max_depth, bucket_max_size), n)
  /\ ht_expect = <<>>
  /\ ht_trace = <<>>
  /\ threads = [t \in ThreadIds |-> OutsideCall("idle")]
  /\ replacer = NewReplacer(0, 1)
  /\ rep_out = Out("none", NoFrame, FALSE, TRUE, NoFrame)
  /\ pool = NewPool(0, 1)
  /\ guards = <<>>
  /\ latch = [p \in IndexPages |-> [readers |-> 0, writer |-> FALSE]]
  /\ raw_pins = [p \in IndexPages |-> 0]
  /\ appends = <<>>
  /\ unsaved = {}
  /\ crash = "no"
  /\ SchedIdle

\* What no step of a thread changes
IxFrame == UNCHANGED <<ht_expect, ht_trace, pool, guards, appends, unsaved, crash, rvars, svars>>

\* The call begins: FetchPageBasic(header), then the directory page id is read
IxCall(t, op, key) ==
  /\ threads[t].pc = "idle"
  /\ raw_pins' = PinPage(raw_pins, ht.header_page_id)
  /\ threads' = [threads EXCEPT ![t] =
                   [@ EXCEPT !.pc = "fetch_directory", !.op = op, !.key = key,
                             !.directory_page_id = DirectoryPageIdOf(ht, key)]]
  /\ UNCHANGED <<ht, latch>> /\ IxFrame

\* FetchPageWrite(directory_page_id), the fetch: the page is pinned
IxFetchDirectory(t) ==
  /\ threads[t].pc = "fetch_directory"
  /\ raw_pins' = PinPage(raw_pins, threads[t].directory_page_id)
  /\ threads' = [threads EXCEPT ![t].pc = "latch_directory"]
  /\ UNCHANGED <<ht, latch>> /\ IxFrame

\* FetchPageWrite(directory_page_id), the latch: WLatch waits until it is free
IxLatchDirectory(t) ==
  /\ threads[t].pc = "latch_directory"
  /\ CanWLatch(latch, threads[t].directory_page_id)
  /\ latch' = WLatch(latch, threads[t].directory_page_id)
  /\ threads' = [threads EXCEPT ![t].pc = "fetch_bucket",
                                ![t].held = Append(@, threads[t].directory_page_id)]
  /\ UNCHANGED <<ht, raw_pins>> /\ IxFrame

\* The bucket page id is read from the directory; FetchPageWrite pins the page
IxFetchBucket(t) ==
  LET bucket_page_id == Walk(ht, threads[t].key).bucket_page_id IN
  /\ threads[t].pc = "fetch_bucket"
  /\ raw_pins' = PinPage(raw_pins, bucket_page_id)
  /\ threads' = [threads EXCEPT ![t].pc = "latch_bucket",
                                ![t].bucket_page_id = bucket_page_id]
  /\ UNCHANGED <<ht, latch>> /\ IxFrame

IxLatchBucket(t) ==
  /\ threads[t].pc = "latch_bucket"
  /\ CanWLatch(latch, threads[t].bucket_page_id)
  /\ latch' = WLatch(latch, threads[t].bucket_page_id)
  /\ threads' = [threads EXCEPT ![t].pc = "bucket",
                                ![t].held = Append(@, threads[t].bucket_page_id)]
  /\ UNCHANGED <<ht, raw_pins>> /\ IxFrame

\* GetValue: Lookup in the bucket
IxLookup(t) ==
  /\ threads[t].pc = "bucket" /\ threads[t].op = "GetValue"
  /\ threads' = [threads EXCEPT ![t].pc = "drop_bucket"]
  /\ UNCHANGED <<ht, latch, raw_pins>> /\ IxFrame

\* Remove: the pair is removed from the bucket
IxRemove(t) ==
  /\ threads[t].pc = "bucket" /\ threads[t].op = "Remove"
  /\ ht' = Remove(ht, threads[t].key).T
  /\ threads' = [threads EXCEPT ![t].pc = "drop_bucket"]
  /\ UNCHANGED <<latch, raw_pins>> /\ IxFrame

\* Insert into a bucket with room
IxInsert(t) ==
  /\ threads[t].pc = "bucket" /\ threads[t].op = "Insert"
  /\ ~IsFull(ht.buckets[threads[t].bucket_page_id])
  /\ ht' = Insert(ht, threads[t].key, ValueOf(threads[t].key)).T
  /\ threads' = [threads EXCEPT ![t].pc = "drop_bucket"]
  /\ UNCHANGED <<latch, raw_pins>> /\ IxFrame

\* Insert on a full bucket: NewPageGuarded(&split_image_page_id).UpgradeWrite(),
\* the call of NewPage: the pool allocates the page id and pins the page
IxNewSplitImage(t) ==
  /\ threads[t].pc = "bucket" /\ threads[t].op = "Insert"
  /\ IsFull(ht.buckets[threads[t].bucket_page_id])
  /\ ht' = AllocatePage(ht)
  /\ raw_pins' = PinPage(raw_pins, ht.next_page_id)
  /\ threads' = [threads EXCEPT ![t].pc = "latch_split_image",
                                ![t].split_image_page_id = ht.next_page_id]
  /\ UNCHANGED latch /\ IxFrame

\* UpgradeWrite on the temporary basic guard: page_->WLatch()
IxLatchSplitImage(t) ==
  /\ threads[t].pc = "latch_split_image"
  /\ CanWLatch(latch, threads[t].split_image_page_id)
  /\ latch' = WLatch(latch, threads[t].split_image_page_id)
  /\ threads' = [threads EXCEPT ![t].pc = "drop_temporary",
                                ![t].held = Append(@, threads[t].split_image_page_id)]
  /\ UNCHANGED <<ht, raw_pins>> /\ IxFrame

\* The end of the statement: ~BasicPageGuard of the temporary, which UpgradeWrite
\* left active, unpins the split image
IxDropTemporary(t) ==
  /\ threads[t].pc = "drop_temporary"
  /\ raw_pins' = UnpinPageIfPinned(raw_pins, threads[t].split_image_page_id)
  /\ threads' = [threads EXCEPT ![t].pc = "split"]
  /\ UNCHANGED <<ht, latch>> /\ IxFrame

\* Insert on a full bucket, the rest: Init of the split image, the directory
\* update or the refusal, the rehash and the insert
IxSplit(t) ==
  /\ threads[t].pc = "split"
  /\ ht' = InsertSplit(ht, threads[t].key, ValueOf(threads[t].key),
                       threads[t].split_image_page_id).T
  /\ threads' = [threads EXCEPT ![t].pc = "drop_split_image"]
  /\ UNCHANGED <<latch, raw_pins>> /\ IxFrame

\* WritePageGuard::Drop, first statement: UnpinPage unless the pin count is 0
IxDropUnpin(t, pc, page_id) ==
  /\ threads[t].pc = pc /\ ~threads[t].unpinned
  /\ raw_pins' = UnpinPageIfPinned(raw_pins, page_id)
  /\ threads' = [threads EXCEPT ![t].unpinned = TRUE]
  /\ UNCHANGED <<ht, latch>> /\ IxFrame

\* A Drop whose second statement leaves the latch held
IxDropKeepingLatch(t, pc, page_id, next) ==
  /\ threads[t].pc = pc /\ threads[t].unpinned
  /\ threads' = [threads EXCEPT ![t].pc = next, ![t].unpinned = FALSE]
  /\ UNCHANGED <<ht, latch, raw_pins>> /\ IxFrame

\* WritePageGuard::Drop, second statement: WUnlatch()
IxDropUnlatch(t, pc, page_id, next) ==
  /\ threads[t].pc = pc /\ threads[t].unpinned
  /\ latch' = WUnlatch(latch, page_id)
  /\ threads' = [threads EXCEPT ![t].pc = next, ![t].unpinned = FALSE,
                                ![t].held = SelectSeq(@, LAMBDA p : p # page_id)]
  /\ UNCHANGED <<ht, raw_pins>> /\ IxFrame

\* ~WritePageGuard: Drop, whose two statements other threads can come between
IxDrop(t, pc, page_id, next) ==
  \/ IxDropUnpin(t, pc, page_id)
  \/ IxDropUnlatch(t, pc, page_id, next)

IxDropSplitImage(t) ==
  IxDrop(t, "drop_split_image", threads[t].split_image_page_id, "drop_bucket")

IxDropBucket(t) ==
  IxDrop(t, "drop_bucket", threads[t].bucket_page_id, "drop_directory")

IxDropDirectory(t) ==
  IxDrop(t, "drop_directory", threads[t].directory_page_id, "drop_header")

\* ~BasicPageGuard of the header guard; the call returns
IxDropHeader(t) ==
  /\ threads[t].pc = "drop_header"
  /\ raw_pins' = UnpinPageIfPinned(raw_pins, ht.header_page_id)
  /\ threads' = [threads EXCEPT ![t] = OutsideCall("returned")]
  /\ UNCHANGED <<ht, latch>> /\ IxFrame

\* The steps of a call that has begun
IxStep(t) ==
  \/ IxFetchDirectory(t)
  \/ IxLatchDirectory(t)
  \/ IxFetchBucket(t)
  \/ IxLatchBucket(t)
  \/ IxLookup(t)
  \/ IxRemove(t)
  \/ IxInsert(t)
  \/ IxNewSplitImage(t)
  \/ IxLatchSplitImage(t)
  \/ IxDropTemporary(t)
  \/ IxSplit(t)
  \/ IxDropSplitImage(t)
  \/ IxDropBucket(t)
  \/ IxDropDirectory(t)
  \/ IxDropHeader(t)

IxNext ==
  \/ \E t \in ThreadIds, op \in IndexOps, key \in IndexKeys : IxCall(t, op, key)
  \/ \E t \in ThreadIds : IxStep(t)

SpecHashLatch == IxInit /\ [][IxNext]_vars

\* Every thread that is in a call is scheduled again and again
FairSpecHashLatch == SpecHashLatch /\ \A t \in ThreadIds : WF_vars(IxStep(t))

\* The pages whose write latch thread t holds
HeldBy(t) == {threads[t].held[i] : i \in 1 .. Len(threads[t].held)}

\* Thread t took its latches in the order directory, bucket, split image, and
\* holds none while it waits for the directory and only the directory while it
\* waits for the bucket
LatchOrder(t) ==
  LET th == threads[t] IN
  /\ Len(th.held) <= 3
  /\ Len(th.held) >= 1 => th.held[1] = th.directory_page_id
  /\ Len(th.held) >= 2 => th.held[2] = th.bucket_page_id
  /\ Len(th.held) = 3 => th.held[3] = th.split_image_page_id /\ th.op = "Insert"
  /\ th.pc \in {"idle", "returned", "fetch_directory", "latch_directory"} => th.held = <<>>
  /\ th.pc \in {"fetch_bucket", "latch_bucket"} => th.held = <<th.directory_page_id>>
  /\ th.pc = "latch_split_image" => th.held = <<th.directory_page_id, th.bucket_page_id>>

\* A write latch is held by exactly one thread, and by a thread that took it
LatchesOwned ==
  /\ \A p \in IndexPages : latch[p].writer <=> \E t \in ThreadIds : p \in HeldBy(t)
  /\ \A t1, t2 \in ThreadIds : t1 # t2 => HeldBy(t1) \cap HeldBy(t2) = {}
  /\ \A p \in IndexPages : latch[p].readers = 0

\* When every call has returned no latch is held and no page is pinned
AllReleased ==
  (\A t \in ThreadIds : ~InCall(t)) =>
    \A p \in IndexPages : ~latch[p].writer /\ raw_pins[p] = 0

\* While a call is under way some thread in a call can take a step
NoDeadlock ==
  (\E t \in ThreadIds : InCall(t)) =>
    \E t \in ThreadIds : ENABLED IxStep(t)

C32_Safety ==
  /\ \A t \in ThreadIds : LatchOrder(t)
  /\ LatchesOwned
  /\ AllReleased
  /\ NoDeadlock

\* C32: GetValue, Insert and Remove take the directory's write latch before the
\* bucket's, Insert takes the split image's latch after both, no thread holds a
\* bucket latch while it waits for a directory latch, the calls never deadlock,
\* and under a fair scheduler every call returns with its latches and pins
\* released.
C32_LatchOrdering ==
  /\ []C32_Safety
  /\ \A t \in ThreadIds : InCall(t) ~> (threads[t].pc = "returned")

\* One thread holds the directory, the bucket and the split image of an Insert
\* while another, which has pinned the header and the directory, waits for the
\* directory's latch
C32_Witness ==
  \E t1, t2 \in ThreadIds :
    /\ threads[t1].pc = "split" /\ Len(threads[t1].held) = 3
    /\ threads[t2].pc = "latch_directory"
    /\ threads[t2].directory_page_id = threads[t1].directory_page_id
    /\ raw_pins[threads[t1].directory_page_id] = 2
    /\ raw_pins[ht.header_page_id] = 2
    /\ raw_pins[threads[t1].split_image_page_id] = 0

=============================================================================
